---- MODULE Spec2Model ----
(***************************************************************************)
(* Upload lifecycle of the media service: MediaService (initiateUpload,    *)
(* completeUpload, updateFile, deleteFile) over the MongoDB media          *)
(* repository and the S3 storage provider, with the content-signature      *)
(* validator.  Every await of a collaborator call is one step, so calls of *)
(* different requests interleave between their store reads and writes.     *)
(***************************************************************************)
EXTENDS Integers, Sequences, FiniteSets, TLC

(***************************************************************************)
(* Bounds of the model                                                     *)
(***************************************************************************)
\* number of ids randomUUID() hands out
MaxIds == 1
\* number of requests the server starts
MaxCalls == 3

\* 0 is an id no record was ever created for
Ids == 1..MaxIds
\* the request slots: at most two requests are in flight at a time
Procs == {"r1", "r2"}

(***************************************************************************)
(* Program constants                                                       *)
(***************************************************************************)
maxFileSize == 104857600
allowedMimeTypes == {"image/jpeg", "image/png", "image/gif"}
OCTET_STREAM == "application/octet-stream"
PENDING == "pending"
UPLOADED == "uploaded"
VALIDATED == "validated"
INVALID == "invalid"
FAILED == "failed"
MediaStatus == {PENDING, UPLOADED, VALIDATED, INVALID, FAILED}
\* the bucket of config.aws.s3Bucket
bucket == "media-bucket"
\* validateFileContent and detectMimeType refuse buffers shorter than this
MinBufferLen == 8
\* last byte of the range 'bytes=0-512' sampled for validation
SampleLastByte == 512
\* absolute size tolerance of validateUploadedFile, in bytes
SizeSlackBytes == 1024
\* sizeTolerancePercent = 0.1, as the denominator of the fraction 1/10
SizeToleranceDiv == 10

(***************************************************************************)
(* Inputs                                                                  *)
(***************************************************************************)
\* file names of requests; NameOrder is their order in an S3 listing
NameOrder == <<"a.jpg">>
Names == {NameOrder[i] : i \in 1..Len(NameOrder)}
OverMaxFileSize == maxFileSize + 1
\* two requests within the policy, three outside it
Requests ==
    {[fileName |-> "a.jpg", mimeType |-> "image/jpeg", size |-> 100000],
     [fileName |-> "a.jpg", mimeType |-> "image/png", size |-> 1000],
     [fileName |-> "a.jpg", mimeType |-> "text/html", size |-> 1000],
     [fileName |-> "a.jpg", mimeType |-> "text/html", size |-> OverMaxFileSize],
     [fileName |-> "a.jpg", mimeType |-> "image/jpeg", size |-> OverMaxFileSize]}

JpegBytes == <<255, 216, 255, 224, 0, 16, 74, 70>>
PngBytes == <<137, 80, 78, 71, 13, 10, 26, 10>>
\* what a client sends with PUT to a presigned URL: Content-Type ("" when
\* the header is missing), Content-Length and the body
PutObjects ==
    {[contentType |-> "image/jpeg", size |-> 100000, body |-> JpegBytes],
     [contentType |-> "", size |-> 100000, body |-> PngBytes]}

(***************************************************************************)
(* Values                                                                  *)
(***************************************************************************)
NoReq == [fileName |-> "", mimeType |-> "", size |-> 0]
NoRec == [status |-> "absent"]
NoUrl == <<>>
NoObj == [present |-> FALSE]
NoMeta == [status |-> "none"]
NoValue == [none |-> TRUE]
\* what detectMimeType returns when no entry matches
undefined == "undefined"

\* an error is its chain of causes, outermost first
Err(kind, message) == <<[kind |-> kind, message |-> message]>>
Wrap(kind, message, cause) == Err(kind, message) \o cause
SdkError == Err("Error", "socket hang up")
Ok(v) == [ok |-> TRUE, err |-> <<>>, value |-> v]
Fail(e) == [ok |-> FALSE, err |-> e, value |-> NoValue]
NoRes == [ok |-> FALSE, err |-> <<>>, value |-> NoValue]
Kind(res) == IF res.ok \/ res.err = <<>> THEN "none" ELSE res.err[1].kind
RootCause(res) == res.err[Len(res.err)]

\* String.prototype.includes('not found') over the messages of the errors
IncludesNotFound(message) ==
    message \in {"Upload not found in storage", "Upload not found in database",
                 "File not found"}

\* String.prototype.startsWith over MIME types: s = prefix, or prefix is a
\* proper prefix of s
ProperPrefixes ==
    {<<"application/vnd.openxmlformats-officedocument.wordprocessingml.document",
       "application/vnd.openxmlformats-officedocument">>,
     <<"application/vnd.openxmlformats-officedocument.spreadsheetml.sheet",
       "application/vnd.openxmlformats-officedocument">>}
StartsWith(s, prefix) == s = prefix \/ <<s, prefix>> \in ProperPrefixes

(***************************************************************************)
(* Content signature validator (file-validator.ts)                         *)
(***************************************************************************)
FILE_SIGNATURES ==
    << [mimeType |-> "image/jpeg", signature |-> <<255, 216, 255>>, offset |-> 0],
       [mimeType |-> "image/png",
        signature |-> <<137, 80, 78, 71, 13, 10, 26, 10>>, offset |-> 0],
       [mimeType |-> "image/gif", signature |-> <<71, 73, 70, 56>>, offset |-> 0],
       [mimeType |-> "image/webp", signature |-> <<82, 73, 70, 70>>, offset |-> 0],
       [mimeType |-> "application/pdf", signature |-> <<37, 80, 68, 70>>, offset |-> 0],
       [mimeType |-> "application/msword",
        signature |-> <<208, 207, 17, 224, 161, 177, 26, 225>>, offset |-> 0],
       [mimeType |-> "application/vnd.openxmlformats-officedocument",
        signature |-> <<80, 75, 3, 4>>, offset |-> 0],
       [mimeType |-> "audio/mpeg", signature |-> <<73, 68, 51>>, offset |-> 0],
       [mimeType |-> "video/mp4",
        signature |-> <<0, 0, 0, 24, 102, 116, 121, 112>>, offset |-> 4],
       [mimeType |-> "application/zip", signature |-> <<80, 75, 3, 4>>, offset |-> 0],
       [mimeType |-> "application/x-rar-compressed",
        signature |-> <<82, 97, 114, 33, 26, 7>>, offset |-> 0] >>

\* the inner loop of validateFileContent / detectMimeType for one entry
SignatureMatches(buffer, sig) ==
    /\ Len(buffer) >= sig.offset + Len(sig.signature)
    /\ \A i \in 1..Len(sig.signature) : buffer[sig.offset + i] = sig.signature[i]

\* validateFileContent rejecting the types it has no signature for
validateFileContentRejectsUnknown(buffer, claimedMimeType) ==
    IF Len(buffer) < MinBufferLen THEN FALSE
    ELSE LET expectedSignatures ==
                 {i \in 1..Len(FILE_SIGNATURES) :
                      StartsWith(claimedMimeType, FILE_SIGNATURES[i].mimeType)}
         IN  \E i \in expectedSignatures :
                 SignatureMatches(buffer, FILE_SIGNATURES[i])

\* validateFileContent accepting a buffer that matches any entry of the table
validateFileContentAnyEntry(buffer, claimedMimeType) ==
    IF Len(buffer) < MinBufferLen THEN FALSE
    ELSE LET expectedSignatures ==
                 {i \in 1..Len(FILE_SIGNATURES) :
                      StartsWith(claimedMimeType, FILE_SIGNATURES[i].mimeType)}
         IN  IF expectedSignatures = {} THEN TRUE
             ELSE \E i \in 1..Len(FILE_SIGNATURES) :
                      SignatureMatches(buffer, FILE_SIGNATURES[i])

validateFileContent(buffer, claimedMimeType) ==
    IF Len(buffer) < MinBufferLen THEN FALSE
    ELSE LET expectedSignatures ==
                 {i \in 1..Len(FILE_SIGNATURES) :
                      StartsWith(claimedMimeType, FILE_SIGNATURES[i].mimeType)}
         IN  IF expectedSignatures = {} THEN TRUE
             ELSE \E i \in expectedSignatures :
                      SignatureMatches(buffer, FILE_SIGNATURES[i])

\* detectMimeType returning the last entry that matches
detectMimeTypeLast(buffer) ==
    IF Len(buffer) < MinBufferLen THEN undefined
    ELSE LET matching == {i \in 1..Len(FILE_SIGNATURES) :
                             SignatureMatches(buffer, FILE_SIGNATURES[i])}
         IN  IF matching = {} THEN undefined
             ELSE FILE_SIGNATURES[CHOOSE i \in matching :
                                      \A j \in matching : j <= i].mimeType

\* the loop over FILE_SIGNATURES returns at the first entry that matches
detectMimeType(buffer) ==
    IF Len(buffer) < MinBufferLen THEN undefined
    ELSE LET matching == {i \in 1..Len(FILE_SIGNATURES) :
                             SignatureMatches(buffer, FILE_SIGNATURES[i])}
         IN  IF matching = {} THEN undefined
             ELSE FILE_SIGNATURES[CHOOSE i \in matching :
                                      \A j \in matching : i <= j].mimeType

(***************************************************************************)
(* State                                                                   *)
(***************************************************************************)
VARIABLES
    db,           \* the media collection: id -> document, or NoRec
    storage,      \* the bucket: id -> file name -> object, or NoObj
    creds,        \* presigned upload URLs handed out: {<<id, file name>>}
    nextId,       \* the next id randomUUID() returns
    calls,        \* number of requests started
    call,         \* request slot -> the call running in it
    declared,     \* id -> the request of the last initiateUpload/updateFile saved
    persisted,    \* <<id, status>> of the records initiateUpload has saved
    detached,     \* ids reset by an updateFile that has returned, with no body
                  \* uploaded and no completeUpload begun before that return
    completions,  \* id -> results persisted by completeUpload for the object
    effects,      \* request slot -> the collaborator calls its call has made
    returned,     \* the call that returned last, and the collaborator calls it made
    sizeCase,     \* an application of validateUploadedFile's size check
    timeCase,     \* the timestamps of one record, its persists and the clock
    sigCase,      \* an application of validateFileContent or detectMimeType
    searchCase,   \* one GET /media: its parameters, filter, query and page
    routeCase,    \* one request given to Router.handle, and its answer
    repoCase      \* the media collection as documents, and one repository call

vars == <<db, storage, creds, nextId, calls, call, declared, persisted,
          completions, effects, returned, detached, sizeCase, timeCase, sigCase,
          searchCase, routeCase, repoCase>>

\* a call: the operation, its position, its arguments (id, req), its locals
\* (orig = originalEntity, meta = fileMetadata, ent =
\* mediaEntity, storageDeleted), its result, and what it has observed: decl =
\* the request declared for the id when the call read the record, checked =
\* the consistency check passed, sig = the outcome of the signature check,
\* saved = the status the call persisted last, clean = neither the stored
\* object nor the declaration changed while the call ran; searchFiles has
\* its query, includeUrls, totalItems, the mediaEntities it has not mapped
\* yet and the mediaDtos it has
\* URLSearchParams.get of a parameter the URL does not have
null == "<null>"
Idle == [op |-> "idle", pc |-> "idle", id |-> 0, req |-> NoReq, orig |-> NoRec,
         meta |-> NoMeta, ent |-> NoRec, storageDeleted |-> FALSE,
         res |-> NoRes, decl |-> NoReq, checked |-> FALSE, sig |-> "none",
         saved |-> "none", clean |-> TRUE,
         filter |-> NoValue, query |-> NoValue, includeUrls |-> FALSE, totalItems |-> 0,
         mediaEntities |-> <<>>, mediaDtos |-> <<>>]

NoResponse == [call |-> Idle, effects |-> {}]

\* a Date that is not set (undefined or null); the Dates that are set are >= 0
Undefined == -1
\* a document (or entity) as far as its timestamps go
NoDoc == [createdAt |-> Undefined, updatedAt |-> Undefined,
          uploadedAt |-> Undefined, present |-> FALSE]
NoTimeCase == [now |-> 0, doc |-> NoDoc, lastModified |-> Undefined,
               op |-> "idle", ent |-> NoDoc, saves |-> 0]

NoSigCase == [buffer |-> <<>>, claimedMimeType |-> "", op |-> "idle",
              valid |-> FALSE, detected |-> undefined]

NoParams == [status |-> null, mimeType |-> null, fileName |-> null,
             startDate |-> null, endDate |-> null, minSize |-> null,
             maxSize |-> null, page |-> null, limit |-> null,
             sortBy |-> null, sortOrder |-> null]
\* the filter, query, options and pagination are set as the request goes on
NoSearchCase == [op |-> "idle", params |-> NoValue, filter |-> NoValue,
                 query |-> NoValue, options |-> NoValue,
                 pagination |-> NoValue]

\* what Router.handle has done with a request: the handler it has invoked
\* with its params, or the status it has answered with itself
NoAnswer == [statusCode |-> 0, handler |-> "none", params |-> {},
             allowedMethods |-> {}]
NoRouteCase == [op |-> "idle", method |-> "", path |-> <<>>,
                answer |-> NoAnswer]

\* the ids of the entities given to the repository
RepoIds == {"id-1", "id-2"}
\* findOne finding no document
NoDocument == [_id |-> ""]
NoEntity == [id |-> ""]
NoRepoCase == [op |-> "idle", docs |-> {}, entity |-> NoEntity, id |-> "",
               found |-> NoEntity, deleted |-> FALSE,
               saved |-> [id \in RepoIds |-> NoEntity],
               matched |-> [id \in RepoIds |-> FALSE]]

NoSizeCase == [declared |-> 0, actual |-> 0, declaredMime |-> "",
               actualMime |-> "", outcome |-> "idle", warned |-> FALSE]

Init ==
    /\ db = [i \in Ids |-> NoRec]
    /\ storage = [i \in Ids |-> [n \in Names |-> NoObj]]
    /\ creds = {}
    /\ nextId = 1
    /\ calls = 0
    /\ call = [p \in Procs |-> Idle]
    /\ declared = [i \in Ids |-> NoReq]
    /\ persisted = {}
    /\ completions = [i \in Ids |-> {}]
    /\ effects = [p \in Procs |-> {}]
    /\ returned = NoResponse
    /\ detached = {}
    /\ sizeCase = NoSizeCase
    /\ timeCase = NoTimeCase
    /\ sigCase = NoSigCase
    /\ searchCase = NoSearchCase
    /\ routeCase = NoRouteCase
    /\ repoCase = NoRepoCase

(***************************************************************************)
(* Mappers (media.mapper.ts, storage.mapper.ts)                            *)
(***************************************************************************)
toStorageMetadata(dto, id) ==
    [id |-> id, originalName |-> dto.fileName, mimeType |-> dto.mimeType,
     size |-> dto.size, key |-> "", bucket |-> "", status |-> PENDING]

toMediaEntity(dto, id) ==
    [id |-> id, originalName |-> dto.fileName, mimeType |-> dto.mimeType,
     size |-> dto.size, status |-> PENDING, key |-> "", bucket |-> ""]

\* toMediaEntityFromStorage leaving the location out
toMediaEntityFromStorageNoLocation(metadata) ==
    [id |-> metadata.id, originalName |-> metadata.originalName,
     mimeType |-> metadata.mimeType, size |-> metadata.size,
     status |-> metadata.status, key |-> "", bucket |-> ""]

toMediaEntityFromStorage(metadata) ==
    [id |-> metadata.id, originalName |-> metadata.originalName,
     mimeType |-> metadata.mimeType, size |-> metadata.size,
     status |-> metadata.status, key |-> metadata.key,
     bucket |-> metadata.bucket]

toUploadResponseDto(response) ==
    [uploadId |-> response.uploadId, url |-> response.url]

toFileMetadataDto(metadata, url) ==
    [id |-> metadata.id, originalName |-> metadata.originalName,
     mimeType |-> metadata.mimeType, size |-> metadata.size,
     status |-> metadata.status, url |-> url]

\* MediaMapper.toFileMetadataDto: a DTO with no url
MediaMapper_toFileMetadataDto(entity) ==
    [id |-> entity.id, originalName |-> entity.originalName,
     mimeType |-> entity.mimeType, size |-> entity.size,
     status |-> entity.status, url |-> NoUrl]

(***************************************************************************)
(* MediaRepository (a fault is a failure of the MongoDB driver call)       *)
(***************************************************************************)
MongoError == Err("MongoError", "connection closed")

\* updateOne({_id}, {$set: doc}, {upsert: true}): every field of the document
\* is set, and the document is created when the id has none
save(d, entity) == [d EXCEPT ![entity.id] = entity]

findById(d, id) == d[id]

\* deleteOne({_id}); the result is deletedCount > 0
deleteById(d, id) ==
    [deleted |-> d[id] # NoRec, db |-> [d EXCEPT ![id] = NoRec]]

(***************************************************************************)
(* S3StorageProvider (a fault is a failure of an S3 client call)           *)
(***************************************************************************)
\* the names of the objects under the prefix uploads/<id>
ObjectNames(st, id) == {n \in Names : st[id][n] # NoObj}

\* Contents[0] of ListObjectsV2: the first key in listing order
FirstObjectName(st, id) ==
    NameOrder[CHOOSE i \in 1..Len(NameOrder) :
                  /\ NameOrder[i] \in ObjectNames(st, id)
                  /\ \A j \in 1..(i - 1) : NameOrder[j] \notin ObjectNames(st, id)]

getMetadata(st, id, fault) ==
    IF fault
    THEN Fail(Wrap("StorageError", "Failed to get file metadata", SdkError))
    ELSE IF ObjectNames(st, id) = {}
    THEN Fail(Wrap("StorageError", "Failed to get file metadata",
                   Err("StorageError", "Upload not found in storage")))
    ELSE LET objectKey == FirstObjectName(st, id)
             head == st[id][objectKey]
         IN  Ok([id |-> id, originalName |-> objectKey,
                 mimeType |-> IF head.contentType = "" THEN OCTET_STREAM
                              ELSE head.contentType,
                 size |-> head.size, key |-> objectKey, bucket |-> bucket,
                 status |-> UPLOADED])

verifyUpload(st, id, fault) ==
    LET r == getMetadata(st, id, fault)
    IN  IF r.ok THEN Ok(TRUE)
        ELSE IF IncludesNotFound(r.err[1].message) THEN Ok(FALSE)
        ELSE r

\* getUploadUrl answering with an id of its own
getUploadUrlOwnId(fileMetadata, fault) ==
    IF fault
    THEN Fail(Wrap("StorageError", "Failed to generate upload URL", SdkError))
    ELSE Ok([uploadId |-> fileMetadata.id + 1,
             url |-> <<fileMetadata.id, fileMetadata.originalName>>])

getUploadUrl(fileMetadata, fault) ==
    IF fault
    THEN Fail(Wrap("StorageError", "Failed to generate upload URL", SdkError))
    ELSE Ok([uploadId |-> fileMetadata.id,
             url |-> <<fileMetadata.id, fileMetadata.originalName>>])

getDownloadUrl(st, id, fault) ==
    LET metadata == getMetadata(st, id, fault)
    IN  IF metadata.ok THEN Ok(<<id, metadata.value.key>>)
        ELSE Fail(Wrap("StorageError", "Failed to generate download URL",
                       metadata.err))

\* the result of deleteFile and the bucket it leaves
storageDeleteFile(st, id, fault) ==
    LET metadata == getMetadata(st, id, fault)
    IN  IF metadata.ok
        THEN [res |-> Ok(TRUE),
              storage |-> [st EXCEPT ![id][metadata.value.key] = NoObj]]
        ELSE [res |-> Fail(Wrap("StorageError", "Failed to delete file",
                                metadata.err)),
              storage |-> st]

\* the first bytes of the object, as GetObject with Range bytes=0-512 returns
SampleBytes(body) ==
    SubSeq(body, 1, IF Len(body) < SampleLastByte + 1 THEN Len(body)
                    ELSE SampleLastByte + 1)

\* S3StorageProvider.validateFileContent: every failure is answered false
storageValidateFileContent(st, id, expectedMimeType, fault) ==
    LET metadata == getMetadata(st, id, fault)
    IN  IF metadata.ok
        THEN validateFileContent(SampleBytes(st[id][metadata.value.key].body),
                                 expectedMimeType)
        ELSE FALSE

(***************************************************************************)
(* MediaService: the checks                                                *)
(***************************************************************************)
\* validateUploadRequest without the check of the size
validateUploadRequestMimeOnly(request) ==
    IF request.mimeType \notin allowedMimeTypes
    THEN Fail(Err("ValidationError", "Invalid mime type"))
    ELSE Ok(NoValue)

validateUploadRequest(request) ==
    IF request.mimeType \notin allowedMimeTypes
    THEN Fail(Err("ValidationError", "Invalid mime type"))
    ELSE IF request.size > maxFileSize
    THEN Fail(Err("ValidationError", "File size exceeds maximum allowed size"))
    ELSE Ok(NoValue)

Abs(x) == IF x < 0 THEN -x ELSE x

\* sizeDifference > original.size * 0.1 over the integers: the difference is
\* an integer, so it exceeds size * 0.1 exactly when 10 times it exceeds size
ExceedsTolerance(sizeDifference, size) == sizeDifference * SizeToleranceDiv > size

\* the condition under which validateUploadedFile logs 'File MIME type
\* mismatch': a MIME type from storage that is set, differs from the
\* declared one and is not the generic application/octet-stream
mimeTypeMismatch(original, uploaded) ==
    /\ uploaded.mimeType # ""
    /\ original.mimeType # uploaded.mimeType
    /\ uploaded.mimeType # OCTET_STREAM

\* the size check with || in place of &&
validateUploadedFileEither(original, uploaded) ==
    LET sizeDifference == Abs(original.size - uploaded.size)
    IN  IF ExceedsTolerance(sizeDifference, original.size)
           \/ sizeDifference > SizeSlackBytes
        THEN Fail(Err("ValidationError", "File size mismatch"))
        ELSE Ok([warned |-> mimeTypeMismatch(original, uploaded)])

\* validateUploadedFile throwing on the MIME type mismatch it logs
validateUploadedFileStrict(original, uploaded) ==
    LET sizeDifference == Abs(original.size - uploaded.size)
    IN  IF ExceedsTolerance(sizeDifference, original.size)
           /\ sizeDifference > SizeSlackBytes
        THEN Fail(Err("ValidationError", "File size mismatch"))
        ELSE IF mimeTypeMismatch(original, uploaded)
        THEN Fail(Err("ValidationError", "File MIME type mismatch"))
        ELSE Ok([warned |-> FALSE])

\* validateUploadedFile: the size check throws, the MIME comparison only
\* logs a warning (warned)
validateUploadedFile(original, uploaded) ==
    LET sizeDifference == Abs(original.size - uploaded.size)
    IN  IF ExceedsTolerance(sizeDifference, original.size)
           /\ sizeDifference > SizeSlackBytes
        THEN Fail(Err("ValidationError", "File size mismatch"))
        ELSE Ok([warned |-> mimeTypeMismatch(original, uploaded)])

(***************************************************************************)
(* Requests and clients                                                    *)
(***************************************************************************)
\* the call is over: its locals are gone, its result and observations stay
Return(c, res) ==
    [Idle EXCEPT !.op = c.op, !.pc = "done", !.id = c.id, !.req = c.req,
                 !.res = res, !.filter = c.filter, !.query = c.query,
                 !.includeUrls = c.includeUrls,
                 !.checked = c.checked, !.sig = c.sig, !.saved = c.saved]
\* a request is taken by the first free slot
Free(p) == call[p] = Idle /\ (p = "r2" => call["r1"] # Idle)

\* the calls of completeUpload in flight for the id no longer see one object
\* and one declaration
Taint(c, id) ==
    [q \in Procs |->
        IF c[q].op = "completeUpload" /\ c[q].id = id /\ c[q].pc # "done"
        THEN [c[q] EXCEPT !.clean = FALSE] ELSE c[q]]

\* the call in slot p has taken a step: c is the slots after it, and fx the
\* collaborator calls made in it. A call that has returned frees its slot,
\* and what it returned is on its way to the client.
Step(p, c, fx) ==
    IF c[p].pc = "done"
    THEN /\ call' = [c EXCEPT ![p] = Idle]
         /\ effects' = [effects EXCEPT ![p] = {}]
         /\ returned' = [call |-> c[p], effects |-> effects[p] \cup fx]
    ELSE /\ call' = c
         /\ effects' = [effects EXCEPT ![p] = @ \cup fx]
         /\ returned' = NoResponse

\* the ids a client can name: those initiateUpload has generated so far
KnownIds == {i \in Ids : i < nextId}

\* initiateUpload saving the record before it validates the request
StartInitiateAfterSave(p) ==
    /\ Free(p) /\ calls < MaxCalls /\ nextId <= MaxIds
    /\ \E request \in Requests :
           LET v == validateUploadRequest(request)
               c == [Idle EXCEPT !.op = "initiateUpload", !.req = request,
                                 !.id = nextId]
           IN  /\ db' = save(db, toMediaEntity(request, nextId))
               /\ Step(p, [call EXCEPT ![p] =
                              IF ~v.ok THEN Return(c, v)
                              ELSE [c EXCEPT !.pc = "url",
                                             !.meta = toStorageMetadata(request, nextId),
                                             !.ent = toMediaEntity(request, nextId)]],
                        {"save"})
    /\ nextId' = nextId + 1
    /\ calls' = calls + 1
    /\ UNCHANGED <<storage, creds, declared, persisted, completions,
                   detached, sizeCase, timeCase, sigCase,
                   searchCase, routeCase, repoCase>>

\* POST /media/upload-request: initiateUpload runs to its first await
StartInitiate(p) ==
    /\ Free(p) /\ calls < MaxCalls
    /\ \E request \in Requests :
           LET v == validateUploadRequest(request)
               c == [Idle EXCEPT !.op = "initiateUpload", !.req = request]
           IN  IF ~v.ok
               THEN /\ Step(p, [call EXCEPT ![p] = Return(c, v)], {})
                    /\ UNCHANGED nextId
               ELSE /\ nextId <= MaxIds
                    /\ Step(p, [call EXCEPT ![p] =
                           [c EXCEPT !.pc = "save", !.id = nextId,
                                     !.meta = toStorageMetadata(request, nextId),
                                     !.ent = toMediaEntity(request, nextId)]],
                                     {})
                    /\ nextId' = nextId + 1
    /\ calls' = calls + 1
    /\ UNCHANGED <<db, storage, creds, declared, persisted, completions,
                   detached, sizeCase, timeCase, sigCase,
                   searchCase, routeCase, repoCase>>

\* POST /media/upload-complete
StartComplete(p) ==
    /\ Free(p) /\ calls < MaxCalls
    /\ \E id \in KnownIds :
           Step(p, [call EXCEPT ![p] =
                       [Idle EXCEPT !.op = "completeUpload", !.pc = "find",
                                    !.id = id]], {})
    /\ calls' = calls + 1
    /\ UNCHANGED <<db, storage, creds, nextId, declared, persisted,
                   completions, detached, sizeCase, timeCase, sigCase,
                   searchCase, routeCase, repoCase>>

\* PUT /media/:id: updateFile runs to its first await
StartUpdate(p) ==
    /\ Free(p) /\ calls < MaxCalls
    /\ \E id \in KnownIds, request \in Requests :
           LET v == validateUploadRequest(request)
               c == [Idle EXCEPT !.op = "updateFile", !.id = id, !.req = request]
           IN  Step(p, [call EXCEPT ![p] =
                   IF ~v.ok THEN Return(c, v) ELSE [c EXCEPT !.pc = "find"]],
                   {})
    /\ calls' = calls + 1
    /\ UNCHANGED <<db, storage, creds, nextId, declared, persisted,
                   completions, detached, sizeCase, timeCase, sigCase,
                   searchCase, routeCase, repoCase>>

\* DELETE /media/:id
StartDelete(p) ==
    /\ Free(p) /\ calls < MaxCalls
    /\ \E id \in KnownIds :
           Step(p, [call EXCEPT ![p] =
                       [Idle EXCEPT !.op = "deleteFile", !.pc = "storage",
                                    !.id = id]], {})
    /\ calls' = calls + 1
    /\ UNCHANGED <<db, storage, creds, nextId, declared, persisted,
                   completions, detached, sizeCase, timeCase, sigCase,
                   searchCase, routeCase, repoCase>>

\* a client PUTs a body to a presigned upload URL it was given
ClientPut ==
    /\ \E c \in creds, object \in PutObjects :
           /\ storage[c[1]][c[2]] # object
           /\ storage' = [storage EXCEPT ![c[1]][c[2]] = object]
           /\ call' = Taint(call, c[1])
           /\ completions' = [completions EXCEPT ![c[1]] = {}]
           /\ detached' = detached \ {c[1]}
    /\ UNCHANGED <<db, creds, nextId, calls, declared, persisted, effects,
                   sizeCase, timeCase, sigCase,
                   searchCase, routeCase, repoCase>>
    /\ returned' = NoResponse

(***************************************************************************)
(* MediaService.initiateUpload                                             *)
(***************************************************************************)
\* initiateUpload going on to the credential without having saved the record
InitiateSaveSkipped(p) ==
    /\ call[p].op = "initiateUpload" /\ call[p].pc = "save"
    /\ Step(p, [call EXCEPT ![p] = [call[p] EXCEPT !.pc = "url"]], {})
    /\ UNCHANGED <<db, storage, creds, nextId, calls, declared, persisted,
                   completions, detached, sizeCase, timeCase, sigCase,
                   searchCase, routeCase, repoCase>>

InitiateSave(p) ==
    /\ call[p].op = "initiateUpload" /\ call[p].pc = "save"
    /\ \E fault \in BOOLEAN :
           IF fault
           THEN /\ Step(p, [call EXCEPT ![p] =
                               Return(call[p], Fail(Wrap("DatabaseError",
                                                   "Failed to save entity",
                                                   MongoError)))], {"save"})
                /\ UNCHANGED <<db, declared, persisted, completions>>
           ELSE /\ db' = save(db, call[p].ent)
                /\ declared' = [declared EXCEPT ![call[p].id] = call[p].req]
                /\ persisted' = persisted \cup {<<call[p].id, call[p].ent.status>>}
                /\ completions' = [completions EXCEPT ![call[p].id] = {}]
                /\ Step(p, [call EXCEPT ![p] =
                               [call[p] EXCEPT !.pc = "url", !.saved = call[p].ent.status]],
                               {"save"})
    /\ UNCHANGED <<storage, creds, nextId, calls, detached, sizeCase, timeCase, sigCase,
                   searchCase, routeCase, repoCase>>

\* initiateUpload removing the record it saved when the credential fails
InitiateUrlRollsBack(p) ==
    /\ call[p].op = "initiateUpload" /\ call[p].pc = "url"
    /\ \E fault \in BOOLEAN :
           LET uploadResponse == getUploadUrl(call[p].meta, fault)
           IN  IF uploadResponse.ok
               THEN /\ creds' = creds \cup {uploadResponse.value.url}
                    /\ UNCHANGED db
                    /\ Step(p, [call EXCEPT ![p] =
                          Return(call[p],
                                 Ok(toUploadResponseDto(uploadResponse.value)))],
                          {"getUploadUrl"})
               ELSE /\ UNCHANGED creds
                    /\ db' = deleteById(db, call[p].id).db
                    /\ Step(p, [call EXCEPT ![p] =
                          Return(call[p], Fail(Wrap("StorageError",
                                              "Failed to initiate upload",
                                              uploadResponse.err)))],
                          {"getUploadUrl", "deleteById"})
    /\ UNCHANGED <<storage, nextId, calls, declared, persisted, completions,
                   detached, sizeCase, timeCase, sigCase,
                   searchCase, routeCase, repoCase>>

InitiateUrl(p) ==
    /\ call[p].op = "initiateUpload" /\ call[p].pc = "url"
    /\ \E fault \in BOOLEAN :
           LET uploadResponse == getUploadUrl(call[p].meta, fault)
           IN  IF uploadResponse.ok
               THEN /\ creds' = creds \cup {uploadResponse.value.url}
                    /\ Step(p, [call EXCEPT ![p] =
                          Return(call[p], Ok(toUploadResponseDto(uploadResponse.value)))],
                          {"getUploadUrl"})
               ELSE /\ UNCHANGED creds
                    /\ Step(p, [call EXCEPT ![p] =
                          Return(call[p], Fail(Wrap("StorageError",
                                              "Failed to initiate upload",
                                              uploadResponse.err)))],
                                              {"getUploadUrl"})
    /\ UNCHANGED <<db, storage, nextId, calls, declared, persisted, completions,
                   detached, sizeCase, timeCase, sigCase,
                   searchCase, routeCase, repoCase>>

(***************************************************************************)
(* MediaService.completeUpload                                             *)
(***************************************************************************)
CompleteFind(p) ==
    /\ call[p].op = "completeUpload" /\ call[p].pc = "find"
    /\ \E fault \in BOOLEAN :
           LET originalEntity == findById(db, call[p].id)
           IN  Step(p, [call EXCEPT ![p] =
                   IF fault
                   THEN Return(call[p], Fail(Wrap("DatabaseError",
                                            "Failed to find entity", MongoError)))
                   ELSE IF originalEntity = NoRec
                   THEN Return(call[p], Fail(Err("NotFoundError",
                                           "Upload not found in database")))
                   ELSE [call[p] EXCEPT !.pc = "verify", !.orig = originalEntity,
                                  !.decl = declared[call[p].id]]],
                                  {"findById"})
    /\ UNCHANGED <<db, storage, creds, nextId, calls, declared, persisted,
                   completions, detached, sizeCase, timeCase, sigCase,
                   searchCase, routeCase, repoCase>>

\* completeUpload marking the record failed when storage has no object
CompleteVerifyMarksFailed(p) ==
    /\ call[p].op = "completeUpload" /\ call[p].pc = "verify"
    /\ \E fault \in BOOLEAN :
           LET exists == verifyUpload(storage, call[p].id, fault)
           IN  Step(p, [call EXCEPT ![p] =
                   IF exists.ok /\ exists.value = TRUE
                   THEN [call[p] EXCEPT !.pc = "metadata"]
                   ELSE IF exists.ok
                   THEN Return(call[p], Fail(Err("NotFoundError",
                                           "Upload not found in storage")))
                   ELSE Return(call[p], Fail(Wrap("StorageError",
                                            "Failed to verify upload",
                                            exists.err)))], {"verifyUpload"})
    /\ db' = IF verifyUpload(storage, call[p].id, FALSE).ok THEN db
             ELSE save(db, [call[p].orig EXCEPT !.status = FAILED])
    /\ UNCHANGED <<storage, creds, nextId, calls, declared, persisted,
                   completions, detached, sizeCase, timeCase, sigCase,
                   searchCase, routeCase, repoCase>>

CompleteVerify(p) ==
    /\ call[p].op = "completeUpload" /\ call[p].pc = "verify"
    /\ \E fault \in BOOLEAN :
           LET exists == verifyUpload(storage, call[p].id, fault)
           IN  Step(p, [call EXCEPT ![p] =
                   IF exists.ok /\ exists.value = TRUE
                   THEN [call[p] EXCEPT !.pc = "metadata"]
                   ELSE IF exists.ok
                   THEN Return(call[p], Fail(Err("NotFoundError",
                                           "Upload not found in storage")))
                   ELSE Return(call[p], Fail(Wrap("StorageError",
                                            "Failed to verify upload",
                                            exists.err)))], {"verifyUpload"})
    /\ UNCHANGED <<db, storage, creds, nextId, calls, declared, persisted,
                   completions, detached, sizeCase, timeCase, sigCase,
                   searchCase, routeCase, repoCase>>

\* getMetadata, then validateUploadedFile and the entity built from storage
\* completeUpload marking the record invalid when the size check fails
CompleteMetadataMarksInvalid(p) ==
    /\ call[p].op = "completeUpload" /\ call[p].pc = "metadata"
    /\ \E fault \in BOOLEAN :
           LET storageMetadata == getMetadata(storage, call[p].id, fault)
               check == validateUploadedFile(call[p].orig, storageMetadata.value)
           IN  /\ Step(p, [call EXCEPT ![p] =
                   IF ~storageMetadata.ok
                   THEN Return(call[p], Fail(Wrap("StorageError",
                                            "Failed to get file metadata",
                                            storageMetadata.err)))
                   ELSE IF ~check.ok
                   THEN Return(call[p], check)
                   ELSE [call[p] EXCEPT
                           !.pc = "save1",
                           !.checked = TRUE,
                           !.ent = [toMediaEntityFromStorage(storageMetadata.value)
                                      EXCEPT !.originalName = call[p].orig.originalName,
                                             !.status = UPLOADED]]],
                                             {"getMetadata"})
               /\ db' = IF storageMetadata.ok /\ ~check.ok
                        THEN save(db, [call[p].orig EXCEPT !.status = INVALID])
                        ELSE db
    /\ UNCHANGED <<storage, creds, nextId, calls, declared, persisted,
                   completions, detached, sizeCase, timeCase, sigCase,
                   searchCase, routeCase, repoCase>>

CompleteMetadata(p) ==
    /\ call[p].op = "completeUpload" /\ call[p].pc = "metadata"
    /\ \E fault \in BOOLEAN :
           LET storageMetadata == getMetadata(storage, call[p].id, fault)
               check == validateUploadedFile(call[p].orig, storageMetadata.value)
           IN  Step(p, [call EXCEPT ![p] =
                   IF ~storageMetadata.ok
                   THEN Return(call[p], Fail(Wrap("StorageError",
                                            "Failed to get file metadata",
                                            storageMetadata.err)))
                   ELSE IF ~check.ok
                   THEN Return(call[p], check)
                   ELSE [call[p] EXCEPT
                           !.pc = "save1",
                           !.checked = TRUE,
                           !.ent = [toMediaEntityFromStorage(storageMetadata.value)
                                      EXCEPT !.originalName = call[p].orig.originalName,
                                             !.status = UPLOADED]]],
                                             {"getMetadata"})
    /\ UNCHANGED <<db, storage, creds, nextId, calls, declared, persisted,
                   completions, detached, sizeCase, timeCase, sigCase,
                   searchCase, routeCase, repoCase>>

\* completeUpload saving only over the record it has read
CompleteSave1IfUnchanged(p) ==
    /\ call[p].op = "completeUpload" /\ call[p].pc = "save1"
    /\ \E fault \in BOOLEAN :
           IF fault
           THEN /\ Step(p, [call EXCEPT ![p] =
                               Return(call[p], Fail(Wrap("DatabaseError",
                                                   "Failed to save entity",
                                                   MongoError)))], {"save"})
                /\ UNCHANGED db
           ELSE /\ db' = IF db[call[p].id] = call[p].orig
                         THEN save(db, call[p].ent) ELSE db
                /\ Step(p, [call EXCEPT ![p] =
                               [call[p] EXCEPT !.pc = "validate",
                                         !.saved = call[p].ent.status]],
                                         {"save"})
    /\ UNCHANGED <<storage, creds, nextId, calls, declared, persisted,
                   completions, detached, sizeCase, timeCase, sigCase,
                   searchCase, routeCase, repoCase>>

CompleteSave1(p) ==
    /\ call[p].op = "completeUpload" /\ call[p].pc = "save1"
    /\ \E fault \in BOOLEAN :
           IF fault
           THEN /\ Step(p, [call EXCEPT ![p] =
                               Return(call[p], Fail(Wrap("DatabaseError",
                                                   "Failed to save entity",
                                                   MongoError)))], {"save"})
                /\ UNCHANGED db
           ELSE /\ db' = save(db, call[p].ent)
                /\ Step(p, [call EXCEPT ![p] =
                               [call[p] EXCEPT !.pc = "validate",
                                         !.saved = call[p].ent.status]],
                                         {"save"})
    /\ UNCHANGED <<storage, creds, nextId, calls, declared, persisted,
                   completions, detached, sizeCase, timeCase, sigCase,
                   searchCase, routeCase, repoCase>>

\* completeUpload letting a failure of the sampling escape as a StorageError
CompleteValidateThrows(p) ==
    /\ call[p].op = "completeUpload" /\ call[p].pc = "validate"
    /\ \E fault \in BOOLEAN :
           LET isContentValid ==
                   storageValidateFileContent(storage, call[p].id,
                                              call[p].orig.mimeType, fault)
           IN  Step(p, [call EXCEPT ![p] =
                   IF fault
                   THEN Return(call[p], Fail(Wrap("StorageError",
                                            "Failed to validate file content",
                                            SdkError)))
                   ELSE [call[p] EXCEPT !.pc = "save2",
                                  !.sig = IF isContentValid THEN "match"
                                          ELSE "mismatch",
                                  !.ent = [call[p].ent EXCEPT !.status =
                                             IF isContentValid THEN VALIDATED
                                             ELSE INVALID]]],
                                             {"validateFileContent"})
    /\ UNCHANGED <<db, storage, creds, nextId, calls, declared, persisted,
                   completions, detached, sizeCase, timeCase, sigCase,
                   searchCase, routeCase, repoCase>>

\* completeUpload returning without its second save when the content is
\* not valid
CompleteValidateSkipsSave(p) ==
    /\ call[p].op = "completeUpload" /\ call[p].pc = "validate"
    /\ \E fault \in BOOLEAN :
           LET isContentValid ==
                   storageValidateFileContent(storage, call[p].id,
                                              call[p].orig.mimeType, fault)
               sig == IF fault THEN "ioerror"
                      ELSE IF isContentValid THEN "match" ELSE "mismatch"
           IN  Step(p, [call EXCEPT ![p] =
                   IF isContentValid
                   THEN [call[p] EXCEPT !.pc = "save2", !.sig = sig,
                                  !.ent = [call[p].ent EXCEPT !.status = VALIDATED]]
                   ELSE Return([call[p] EXCEPT !.sig = sig],
                               Ok(toFileMetadataDto(call[p].ent, NoUrl)))],
                   {"validateFileContent"})
    /\ UNCHANGED <<db, storage, creds, nextId, calls, declared, persisted,
                   completions, detached, sizeCase, timeCase, sigCase,
                   searchCase, routeCase, repoCase>>

\* storageProvider.validateFileContent against originalEntity.mimeType
CompleteValidate(p) ==
    /\ call[p].op = "completeUpload" /\ call[p].pc = "validate"
    /\ \E fault \in BOOLEAN :
           LET isContentValid ==
                   storageValidateFileContent(storage, call[p].id,
                                              call[p].orig.mimeType, fault)
           IN  Step(p, [call EXCEPT ![p] =
                   [call[p] EXCEPT !.pc = "save2",
                             !.sig = IF fault THEN "ioerror"
                                     ELSE IF isContentValid THEN "match"
                                     ELSE "mismatch",
                             !.ent = [call[p].ent EXCEPT !.status =
                                        IF isContentValid THEN VALIDATED
                                        ELSE INVALID]]],
                                        {"validateFileContent"})
    /\ UNCHANGED <<db, storage, creds, nextId, calls, declared, persisted,
                   completions, detached, sizeCase, timeCase, sigCase,
                   searchCase, routeCase, repoCase>>

\* the final save; a result that is not validated is returned at once
CompleteSave2(p) ==
    /\ call[p].op = "completeUpload" /\ call[p].pc = "save2"
    /\ \E fault \in BOOLEAN :
           IF fault
           THEN /\ Step(p, [call EXCEPT ![p] =
                               Return(call[p], Fail(Wrap("DatabaseError",
                                                   "Failed to save entity",
                                                   MongoError)))], {"save"})
                /\ UNCHANGED <<db, completions>>
           ELSE /\ db' = save(db, call[p].ent)
                /\ completions' =
                       IF call[p].clean /\ call[p].sig # "ioerror"
                       THEN [completions EXCEPT ![call[p].id] =
                                @ \cup {[status |-> call[p].ent.status,
                                         mimeType |-> call[p].ent.mimeType,
                                         size |-> call[p].ent.size]}]
                       ELSE completions
                /\ Step(p, [call EXCEPT ![p] =
                       IF call[p].ent.status = VALIDATED
                       THEN [call[p] EXCEPT !.pc = "url", !.saved = call[p].ent.status]
                       ELSE Return([call[p] EXCEPT !.saved = call[p].ent.status],
                                   Ok(toFileMetadataDto(call[p].ent, NoUrl)))],
                                   {"save"})
    /\ UNCHANGED <<storage, creds, nextId, calls, declared, persisted,
                   detached, sizeCase, timeCase, sigCase,
                   searchCase, routeCase, repoCase>>

CompleteUrl(p) ==
    /\ call[p].op = "completeUpload" /\ call[p].pc = "url"
    /\ \E fault \in BOOLEAN :
           LET downloadUrl == getDownloadUrl(storage, call[p].id, fault)
           IN  Step(p, [call EXCEPT ![p] =
                   Return(call[p], Ok(toFileMetadataDto(call[p].ent,
                                   IF downloadUrl.ok THEN downloadUrl.value
                                   ELSE NoUrl)))], {"getDownloadUrl"})
    /\ UNCHANGED <<db, storage, creds, nextId, calls, declared, persisted,
                   completions, detached, sizeCase, timeCase, sigCase,
                   searchCase, routeCase, repoCase>>

(***************************************************************************)
(* MediaService.updateFile                                                 *)
(***************************************************************************)
\* updateFile going on without a look at what findById returned
UpdateFindUnchecked(p) ==
    /\ call[p].op = "updateFile" /\ call[p].pc = "find"
    /\ \E fault \in BOOLEAN :
           Step(p, [call EXCEPT ![p] =
                   IF fault
                   THEN Return(call[p], Fail(Wrap("DatabaseError",
                                            "Failed to find entity", MongoError)))
                   ELSE [call[p] EXCEPT !.pc = "delete"]], {"findById"})
    /\ UNCHANGED <<db, storage, creds, nextId, calls, declared, persisted,
                   completions, detached, sizeCase, timeCase, sigCase,
                   searchCase, routeCase, repoCase>>

UpdateFind(p) ==
    /\ call[p].op = "updateFile" /\ call[p].pc = "find"
    /\ \E fault \in BOOLEAN :
           LET existingFile == findById(db, call[p].id)
           IN  Step(p, [call EXCEPT ![p] =
                   IF fault
                   THEN Return(call[p], Fail(Wrap("DatabaseError",
                                            "Failed to find entity", MongoError)))
                   ELSE IF existingFile = NoRec
                   THEN Return(call[p], Fail(Err("NotFoundError", "File not found")))
                   ELSE [call[p] EXCEPT !.pc = "delete"]], {"findById"})
    /\ UNCHANGED <<db, storage, creds, nextId, calls, declared, persisted,
                   completions, detached, sizeCase, timeCase, sigCase,
                   searchCase, routeCase, repoCase>>

\* the previous object is deleted; a failure is logged and ignored
\* updateFile letting the failure of the deletion out
UpdateDeleteThrows(p) ==
    /\ call[p].op = "updateFile" /\ call[p].pc = "delete"
    /\ \E fault \in BOOLEAN :
           LET d == storageDeleteFile(storage, call[p].id, fault)
           IN  /\ storage' = d.storage
               /\ completions' = IF d.res.ok
                                 THEN [completions EXCEPT ![call[p].id] = {}]
                                 ELSE completions
               /\ Step(p, [(IF d.res.ok THEN Taint(call, call[p].id) ELSE call)
                             EXCEPT ![p] =
                               IF ~d.res.ok THEN Return(call[p], d.res) ELSE
                               [call[p] EXCEPT !.pc = "save",
                                         !.storageDeleted = d.res.ok,
                                         !.meta = toStorageMetadata(call[p].req, call[p].id),
                                         !.ent = toMediaEntity(call[p].req, call[p].id)]],
                                         {"deleteFile"})
    /\ UNCHANGED <<db, creds, nextId, calls, declared, persisted,
                   detached, sizeCase, timeCase, sigCase,
                   searchCase, routeCase, repoCase>>

UpdateDelete(p) ==
    /\ call[p].op = "updateFile" /\ call[p].pc = "delete"
    /\ \E fault \in BOOLEAN :
           LET d == storageDeleteFile(storage, call[p].id, fault)
           IN  /\ storage' = d.storage
               /\ completions' = IF d.res.ok
                                 THEN [completions EXCEPT ![call[p].id] = {}]
                                 ELSE completions
               /\ Step(p, [(IF d.res.ok THEN Taint(call, call[p].id) ELSE call)
                             EXCEPT ![p] =
                               [call[p] EXCEPT !.pc = "save",
                                         !.storageDeleted = d.res.ok,
                                         !.meta = toStorageMetadata(call[p].req, call[p].id),
                                         !.ent = toMediaEntity(call[p].req, call[p].id)]],
                                         {"deleteFile"})
    /\ UNCHANGED <<db, creds, nextId, calls, declared, persisted,
                   detached, sizeCase, timeCase, sigCase,
                   searchCase, routeCase, repoCase>>

\* updateFile saving the new attributes under the status the record has
UpdateSaveKeepsStatus(p) ==
    /\ call[p].op = "updateFile" /\ call[p].pc = "save"
    /\ \E fault \in BOOLEAN :
           IF fault
           THEN /\ Step(p, [call EXCEPT ![p] =
                               Return(call[p], Fail(Wrap("DatabaseError",
                                                   "Failed to save entity",
                                                   MongoError)))], {"save"})
                /\ UNCHANGED <<db, declared, completions>>
           ELSE /\ db' = save(db, [call[p].ent EXCEPT !.status =
                                     IF db[call[p].id] = NoRec THEN PENDING
                                     ELSE db[call[p].id].status])
                /\ declared' = [declared EXCEPT ![call[p].id] = call[p].req]
                /\ completions' = [completions EXCEPT ![call[p].id] = {}]
                /\ Step(p, [Taint(call, call[p].id) EXCEPT ![p] =
                               [call[p] EXCEPT !.pc = "url",
                                               !.saved = call[p].ent.status]],
                               {"save"})
    /\ UNCHANGED <<storage, creds, nextId, calls, persisted,
                   detached, sizeCase, timeCase, sigCase,
                   searchCase, routeCase, repoCase>>

UpdateSave(p) ==
    /\ call[p].op = "updateFile" /\ call[p].pc = "save"
    /\ \E fault \in BOOLEAN :
           IF fault
           THEN /\ Step(p, [call EXCEPT ![p] =
                               Return(call[p], Fail(Wrap("DatabaseError",
                                                   "Failed to save entity",
                                                   MongoError)))], {"save"})
                /\ UNCHANGED <<db, declared, completions>>
           ELSE /\ db' = save(db, call[p].ent)
                /\ declared' = [declared EXCEPT ![call[p].id] = call[p].req]
                /\ completions' = [completions EXCEPT ![call[p].id] = {}]
                /\ Step(p, [Taint(call, call[p].id) EXCEPT ![p] =
                               [call[p] EXCEPT !.pc = "url", !.saved = call[p].ent.status]],
                               {"save"})
    /\ UNCHANGED <<storage, creds, nextId, calls, persisted,
                   detached, sizeCase, timeCase, sigCase,
                   searchCase, routeCase, repoCase>>

UpdateUrl(p) ==
    /\ call[p].op = "updateFile" /\ call[p].pc = "url"
    /\ \E fault \in BOOLEAN :
           LET uploadResponse == getUploadUrl(call[p].meta, fault)
           IN  IF uploadResponse.ok
               THEN /\ creds' = creds \cup {uploadResponse.value.url}
                    /\ detached' =
                           IF \E q \in Procs : /\ call[q].op = "completeUpload"
                                               /\ call[q].id = call[p].id
                           THEN detached ELSE detached \cup {call[p].id}
                    /\ Step(p, [call EXCEPT ![p] =
                          Return(call[p],
                                 Ok(toUploadResponseDto(uploadResponse.value)))],
                          {"getUploadUrl"})
               ELSE /\ UNCHANGED <<creds, detached>>
                    /\ Step(p, [call EXCEPT ![p] =
                          Return(call[p], Fail(Wrap("StorageError",
                                              "Failed to initiate file update",
                                              uploadResponse.err)))],
                          {"getUploadUrl"})
    /\ UNCHANGED <<db, storage, nextId, calls, declared, persisted, completions,
                   sizeCase, timeCase, sigCase,
                   searchCase, routeCase, repoCase>>

(***************************************************************************)
(* MediaService.deleteFile                                                 *)
(***************************************************************************)
DeleteStorage(p) ==
    /\ call[p].op = "deleteFile" /\ call[p].pc = "storage"
    /\ \E fault \in BOOLEAN :
           LET d == storageDeleteFile(storage, call[p].id, fault)
           IN  /\ storage' = d.storage
               /\ completions' = IF d.res.ok
                                 THEN [completions EXCEPT ![call[p].id] = {}]
                                 ELSE completions
               /\ Step(p, [(IF d.res.ok THEN Taint(call, call[p].id) ELSE call)
                             EXCEPT ![p] =
                               [call[p] EXCEPT !.pc = "database",
                                         !.storageDeleted = d.res.ok]],
                                         {"deleteFile"})
    /\ UNCHANGED <<db, creds, nextId, calls, declared, persisted,
                   detached, sizeCase, timeCase, sigCase,
                   searchCase, routeCase, repoCase>>

\* deleteFile answering with the outcome of the metadata deletion alone
DeleteDatabaseOnly(p) ==
    /\ call[p].op = "deleteFile" /\ call[p].pc = "database"
    /\ \E fault \in BOOLEAN :
           IF fault
           THEN /\ Step(p, [call EXCEPT ![p] =
                               Return(call[p], Fail(Wrap("DatabaseError",
                                                   "Failed to delete entity",
                                                   MongoError)))],
                               {"deleteById"})
                /\ UNCHANGED db
           ELSE LET d == deleteById(db, call[p].id)
                IN  /\ db' = d.db
                    /\ Step(p, [call EXCEPT ![p] =
                           Return(call[p], Ok(d.deleted))],
                           {"deleteById"})
    /\ UNCHANGED <<storage, creds, nextId, calls, declared, persisted,
                   completions, detached, sizeCase, timeCase, sigCase,
                   searchCase, routeCase, repoCase>>

DeleteDatabase(p) ==
    /\ call[p].op = "deleteFile" /\ call[p].pc = "database"
    /\ \E fault \in BOOLEAN :
           IF fault
           THEN /\ Step(p, [call EXCEPT ![p] =
                               Return(call[p], Fail(Wrap("DatabaseError",
                                                   "Failed to delete entity",
                                                   MongoError)))],
                                                   {"deleteById"})
                /\ UNCHANGED db
           ELSE LET d == deleteById(db, call[p].id)
                IN  /\ db' = d.db
                    /\ Step(p, [call EXCEPT ![p] =
                           Return(call[p], Ok(call[p].storageDeleted /\ d.deleted))],
                           {"deleteById"})
    /\ UNCHANGED <<storage, creds, nextId, calls, declared, persisted,
                   completions, detached, sizeCase, timeCase, sigCase,
                   searchCase, routeCase, repoCase>>

(***************************************************************************)
(* getFileMetadata and searchFiles                                         *)
(***************************************************************************)
\* filter.limit || 20
defaultLimit == 20
\* Math.min(parsedLimit, 100)
maxLimit == 100

Min(a, b) == IF a < b THEN a ELSE b

\* a string or null as a condition: if (str)
truthy(str) == str # null /\ str # ""

\* parseInt(str, 10) of the strings requests carry here: the leading integer,
\* or NaN
ParseIntTable ==
    {<<"0", 0>>, <<"1", 1>>, <<"2", 2>>, <<"3", 3>>, <<"10", 10>>,
     <<"20", 20>>, <<"100", 100>>, <<"101", 101>>, <<"150", 150>>,
     <<"-1", -1>>, <<"2.5", 2>>, <<"10abc", 10>>}
parseInt(str) ==
    IF \E e \in ParseIntTable : e[1] = str
    THEN [nan |-> FALSE, n |-> (CHOOSE e \in ParseIntTable : e[1] = str)[2]]
    ELSE [nan |-> TRUE, n |-> 0]

\* new Date(str) of the ISO dates requests carry here, as a day number
DateTable ==
    {<<"2024-01-01", 1>>, <<"2024-01-02", 2>>, <<"2024-01-03", 3>>}
newDate(str) == (CHOOSE e \in DateTable : e[1] = str)[2]

\* the (regular expression, name) pairs of this model where the expression,
\* with option i, matches the name
RegexMatchesI == {<<"A", "a.jpg">>, <<"a", "a.jpg">>, <<"JPG", "a.jpg">>,
                  <<"b", "B.png">>, <<"B", "B.png">>, <<"png", "B.png">>}

\* MediaController.searchFiles accepting any positive limit
searchFilterUnclamped(params) ==
    LET parsedPage == parseInt(params.page)
        parsedLimit == parseInt(params.limit)
        pageOk == ~parsedPage.nan /\ parsedPage.n > 0
        limitOk == ~parsedLimit.nan /\ parsedLimit.n > 0
    IN  [keys |-> {k \in {"status", "mimeType", "fileName", "startDate",
                          "endDate", "minSize", "maxSize"} : truthy(params[k])}
                  \cup (IF truthy(params.page) /\ ~pageOk THEN {} ELSE {"page"})
                  \cup (IF truthy(params.limit) /\ ~limitOk THEN {}
                        ELSE {"limit"})
                  \cup {"sortBy", "sortOrder"},
         status |-> IF truthy(params.status) THEN params.status ELSE "",
         mimeType |-> IF truthy(params.mimeType) THEN params.mimeType ELSE "",
         fileName |-> IF truthy(params.fileName) THEN params.fileName ELSE "",
         startDate |-> IF truthy(params.startDate)
                       THEN newDate(params.startDate) ELSE 0,
         endDate |-> IF truthy(params.endDate)
                     THEN newDate(params.endDate) ELSE 0,
         minSize |-> IF truthy(params.minSize)
                     THEN parseInt(params.minSize).n ELSE 0,
         maxSize |-> IF truthy(params.maxSize)
                     THEN parseInt(params.maxSize).n ELSE 0,
         page |-> IF ~truthy(params.page) THEN 1
                  ELSE IF pageOk THEN parsedPage.n ELSE 0,
         limit |-> IF ~truthy(params.limit) THEN defaultLimit
                   ELSE IF limitOk THEN parsedLimit.n ELSE 0,
         sortBy |-> IF truthy(params.sortBy) THEN params.sortBy
                    ELSE "createdAt",
         sortOrder |-> IF params.sortOrder \in {"asc", "desc"}
                       THEN params.sortOrder ELSE "desc"]

\* MediaController.searchFiles: the filter it builds from the query string
searchFilter(params) ==
    LET parsedPage == parseInt(params.page)
        parsedLimit == parseInt(params.limit)
        pageOk == ~parsedPage.nan /\ parsedPage.n > 0
        limitOk == ~parsedLimit.nan /\ parsedLimit.n > 0
    IN  [keys |-> {k \in {"status", "mimeType", "fileName", "startDate",
                          "endDate", "minSize", "maxSize"} : truthy(params[k])}
                  \cup (IF truthy(params.page) /\ ~pageOk THEN {} ELSE {"page"})
                  \cup (IF truthy(params.limit) /\ ~limitOk THEN {}
                        ELSE {"limit"})
                  \cup {"sortBy", "sortOrder"},
         status |-> IF truthy(params.status) THEN params.status ELSE "",
         mimeType |-> IF truthy(params.mimeType) THEN params.mimeType ELSE "",
         fileName |-> IF truthy(params.fileName) THEN params.fileName ELSE "",
         startDate |-> IF truthy(params.startDate)
                       THEN newDate(params.startDate) ELSE 0,
         endDate |-> IF truthy(params.endDate)
                     THEN newDate(params.endDate) ELSE 0,
         minSize |-> IF truthy(params.minSize)
                     THEN parseInt(params.minSize).n ELSE 0,
         maxSize |-> IF truthy(params.maxSize)
                     THEN parseInt(params.maxSize).n ELSE 0,
         page |-> IF ~truthy(params.page) THEN 1
                  ELSE IF pageOk THEN parsedPage.n ELSE 0,
         limit |-> IF ~truthy(params.limit) THEN defaultLimit
                   ELSE IF limitOk THEN Min(parsedLimit.n, maxLimit) ELSE 0,
         sortBy |-> IF truthy(params.sortBy) THEN params.sortBy
                    ELSE "createdAt",
         sortOrder |-> IF params.sortOrder \in {"asc", "desc"}
                       THEN params.sortOrder ELSE "desc"]

\* a field the filter has, with a value that is not falsy ("" or 0)
Given(filter, key) ==
    /\ key \in filter.keys
    /\ IF key \in {"status", "mimeType", "fileName", "sortBy", "sortOrder"}
       THEN filter[key] # "" ELSE filter[key] # 0

\* const limit = filter.limit || 20; const page = filter.page || 1
searchLimit(filter) == IF Given(filter, "limit") THEN filter.limit
                       ELSE defaultLimit
searchPage(filter) == IF Given(filter, "page") THEN filter.page ELSE 1

\* searchFiles with skip = page * limit
searchOptionsSkipsPage(filter) ==
    [limit |-> searchLimit(filter),
     skip |-> searchPage(filter) * searchLimit(filter),
     sortField |-> IF Given(filter, "sortBy") THEN filter.sortBy
                   ELSE "createdAt",
     sortDirection |-> IF "sortOrder" \in filter.keys /\ filter.sortOrder = "asc"
                       THEN 1 ELSE -1]

\* the options searchFiles passes to find
searchOptions(filter) ==
    [limit |-> searchLimit(filter),
     skip |-> (searchPage(filter) - 1) * searchLimit(filter),
     sortField |-> IF Given(filter, "sortBy") THEN filter.sortBy
                   ELSE "createdAt",
     sortDirection |-> IF "sortOrder" \in filter.keys /\ filter.sortOrder = "asc"
                       THEN 1 ELSE -1]

\* searchFiles taking a size bound of 0 for none
searchQueryFalsySizes(filter) ==
    [keys |-> {k \in {"status", "mimeType"} : Given(filter, k)}
              \cup (IF Given(filter, "fileName") THEN {"originalName"} ELSE {})
              \cup (IF "startDate" \in filter.keys THEN {"createdAt.$gte"}
                    ELSE {})
              \cup (IF "endDate" \in filter.keys THEN {"createdAt.$lte"} ELSE {})
              \cup (IF Given(filter, "minSize") THEN {"size.$gte"} ELSE {})
              \cup (IF Given(filter, "maxSize") THEN {"size.$lte"} ELSE {}),
     status |-> IF Given(filter, "status") THEN filter.status ELSE "",
     mimeType |-> IF Given(filter, "mimeType") THEN filter.mimeType ELSE "",
     originalName |-> IF Given(filter, "fileName") THEN filter.fileName ELSE "",
     createdAtGte |-> IF "startDate" \in filter.keys THEN filter.startDate
                      ELSE 0,
     createdAtLte |-> IF "endDate" \in filter.keys THEN filter.endDate ELSE 0,
     sizeGte |-> IF Given(filter, "minSize") THEN filter.minSize ELSE 0,
     sizeLte |-> IF Given(filter, "maxSize") THEN filter.maxSize ELSE 0]

\* the query searchFiles builds: status, mimeType and fileName count when
\* truthy, a Date always does, minSize and maxSize when not undefined
searchQuery(filter) ==
    [keys |-> {k \in {"status", "mimeType"} : Given(filter, k)}
              \cup (IF Given(filter, "fileName") THEN {"originalName"} ELSE {})
              \cup (IF "startDate" \in filter.keys THEN {"createdAt.$gte"}
                    ELSE {})
              \cup (IF "endDate" \in filter.keys THEN {"createdAt.$lte"} ELSE {})
              \cup (IF "minSize" \in filter.keys THEN {"size.$gte"} ELSE {})
              \cup (IF "maxSize" \in filter.keys THEN {"size.$lte"} ELSE {}),
     status |-> IF Given(filter, "status") THEN filter.status ELSE "",
     mimeType |-> IF Given(filter, "mimeType") THEN filter.mimeType ELSE "",
     originalName |-> IF Given(filter, "fileName") THEN filter.fileName ELSE "",
     createdAtGte |-> IF "startDate" \in filter.keys THEN filter.startDate
                      ELSE 0,
     createdAtLte |-> IF "endDate" \in filter.keys THEN filter.endDate ELSE 0,
     sizeGte |-> IF "minSize" \in filter.keys THEN filter.minSize ELSE 0,
     sizeLte |-> IF "maxSize" \in filter.keys THEN filter.maxSize ELSE 0]

\* a document matches the query (MongoDB: equality, $regex with option i,
\* $gte and $lte)
Matches(entity, query) ==
    /\ entity # NoRec
    /\ "status" \in query.keys => entity.status = query.status
    /\ "mimeType" \in query.keys => entity.mimeType = query.mimeType
    /\ "originalName" \in query.keys =>
           <<query.originalName, entity.originalName>> \in RegexMatchesI
    /\ "createdAt.$gte" \in query.keys => entity.createdAt >= query.createdAtGte
    /\ "createdAt.$lte" \in query.keys => entity.createdAt <= query.createdAtLte
    /\ "size.$gte" \in query.keys => entity.size >= query.sizeGte
    /\ "size.$lte" \in query.keys => entity.size <= query.sizeLte

count(d, query) == Cardinality({rid \in Ids : Matches(d[rid], query)})

\* the matching documents in the order of the sort: by createdAt, which
\* every persist may have rewritten, so in any order
find(d, query) ==
    LET found == {rid \in Ids : Matches(d[rid], query)}
        orders == {f \in [1..Cardinality(found) -> found] :
                      \A m, n \in DOMAIN f : m # n => f[m] # f[n]}
    IN  {[n \in DOMAIN f |-> d[f[n]]] : f \in orders}

\* the loop over mediaEntities up to its next await: the entities whose
\* DTO takes no URL are mapped and pushed
RECURSIVE MapEntities(_, _, _)
MapEntities(mediaEntities, mediaDtos, includeUrls) ==
    IF mediaEntities = <<>>
       \/ (includeUrls /\ Head(mediaEntities).status = VALIDATED)
    THEN [mediaEntities |-> mediaEntities, mediaDtos |-> mediaDtos]
    ELSE MapEntities(Tail(mediaEntities),
                     Append(mediaDtos,
                            MediaMapper_toFileMetadataDto(Head(mediaEntities))),
                     includeUrls)

\* Math.ceil(totalItems / limit)
totalPages(totalItems, limit) == (totalItems + limit - 1) \div limit

PaginatedResult(mediaDtos, totalItems, page, limit) ==
    [items |-> mediaDtos,
     pagination |-> [currentPage |-> page,
                     totalPages |-> totalPages(totalItems, limit),
                     totalItems |-> totalItems, limit |-> limit,
                     hasNextPage |-> page < totalPages(totalItems, limit),
                     hasPreviousPage |-> page > 1]]

\* searchFiles after a pass of its loop: at the next await, or returning
SearchLoop(c, loop) ==
    IF loop.mediaEntities = <<>>
    THEN Return(c, Ok(PaginatedResult(loop.mediaDtos, c.totalItems,
                                      searchPage(c.filter),
                                      searchLimit(c.filter))))
    ELSE [c EXCEPT !.pc = "url", !.mediaEntities = loop.mediaEntities,
                   !.mediaDtos = loop.mediaDtos]

\* GET /media/:id
StartGet(p) ==
    /\ Free(p) /\ calls < MaxCalls
    /\ \E id \in KnownIds :
           Step(p, [call EXCEPT ![p] =
                       [Idle EXCEPT !.op = "getFileMetadata", !.pc = "find",
                                    !.id = id]], {})
    /\ calls' = calls + 1
    /\ UNCHANGED <<db, storage, creds, nextId, declared, persisted,
                   completions, detached, sizeCase, timeCase, sigCase,
                   searchCase, routeCase, repoCase>>

\* getFileMetadata producing a DTO with a URL whatever the status
GetFindAnyStatus(p) ==
    /\ call[p].op = "getFileMetadata" /\ call[p].pc = "find"
    /\ \E fault \in BOOLEAN :
           LET mediaEntity == findById(db, call[p].id)
           IN  Step(p, [call EXCEPT ![p] =
                   IF fault
                   THEN Return(call[p], Fail(Wrap("DatabaseError",
                                            "Failed to find entity", MongoError)))
                   ELSE IF mediaEntity = NoRec
                   THEN Return(call[p], Fail(Err("NotFoundError",
                                           "File with ID not found")))
                   ELSE [call[p] EXCEPT !.pc = "url", !.ent = mediaEntity]],
                   {"findById"})
    /\ UNCHANGED <<db, storage, creds, nextId, calls, declared, persisted,
                   completions, detached, sizeCase, timeCase, sigCase,
                   searchCase, routeCase, repoCase>>

GetFind(p) ==
    /\ call[p].op = "getFileMetadata" /\ call[p].pc = "find"
    /\ \E fault \in BOOLEAN :
           LET mediaEntity == findById(db, call[p].id)
           IN  Step(p, [call EXCEPT ![p] =
                   IF fault
                   THEN Return(call[p], Fail(Wrap("DatabaseError",
                                            "Failed to find entity", MongoError)))
                   ELSE IF mediaEntity = NoRec
                   THEN Return(call[p], Fail(Err("NotFoundError",
                                           "File with ID not found")))
                   ELSE IF mediaEntity.status = VALIDATED
                   THEN [call[p] EXCEPT !.pc = "url", !.ent = mediaEntity]
                   ELSE Return(call[p], Ok(toFileMetadataDto(mediaEntity, NoUrl)))],
                   {"findById"})
    /\ UNCHANGED <<db, storage, creds, nextId, calls, declared, persisted,
                   completions, detached, sizeCase, timeCase, sigCase,
                   searchCase, routeCase, repoCase>>

GetUrl(p) ==
    /\ call[p].op = "getFileMetadata" /\ call[p].pc = "url"
    /\ \E fault \in BOOLEAN :
           LET downloadUrl == getDownloadUrl(storage, call[p].id, fault)
           IN  Step(p, [call EXCEPT ![p] =
                   Return(call[p], Ok(toFileMetadataDto(call[p].ent,
                                   IF downloadUrl.ok THEN downloadUrl.value
                                   ELSE NoUrl)))], {"getDownloadUrl"})
    /\ UNCHANGED <<db, storage, creds, nextId, calls, declared, persisted,
                   completions, detached, sizeCase, timeCase, sigCase,
                   searchCase, routeCase, repoCase>>

\* the filters of the searches that run beside other calls: any status or
\* one status, the first page
SearchFilters ==
    {searchFilter(NoParams)}
    \cup {searchFilter([NoParams EXCEPT !.status = status]) :
             status \in {PENDING, VALIDATED}}

\* GET /media: searchFiles builds its query and runs to its first await
StartSearch(p) ==
    /\ Free(p) /\ calls < MaxCalls
    /\ \E filter \in SearchFilters, includeUrls \in BOOLEAN :
           Step(p, [call EXCEPT ![p] =
                       [Idle EXCEPT !.op = "searchFiles", !.pc = "count",
                                    !.filter = filter,
                                    !.query = searchQuery(filter),
                                    !.includeUrls = includeUrls]], {})
    /\ calls' = calls + 1
    /\ UNCHANGED <<db, storage, creds, nextId, declared, persisted,
                   completions, detached, sizeCase, timeCase, sigCase,
                   searchCase, routeCase, repoCase>>

\* searchFiles letting the driver's error of count through
SearchCountRaw(p) ==
    /\ call[p].op = "searchFiles" /\ call[p].pc = "count"
    /\ \E fault \in BOOLEAN :
           Step(p, [call EXCEPT ![p] =
               IF fault
               THEN Return(call[p], Fail(MongoError))
               ELSE [call[p] EXCEPT !.pc = "find",
                              !.totalItems = count(db, call[p].query)]],
               {"count"})
    /\ UNCHANGED <<db, storage, creds, nextId, calls, declared, persisted,
                   completions, detached, sizeCase, timeCase, sigCase,
                   searchCase, routeCase, repoCase>>

SearchCount(p) ==
    /\ call[p].op = "searchFiles" /\ call[p].pc = "count"
    /\ \E fault \in BOOLEAN :
           Step(p, [call EXCEPT ![p] =
               IF fault
               THEN Return(call[p], Fail(Wrap("DatabaseError",
                                        "Failed to count entities", MongoError)))
               ELSE [call[p] EXCEPT !.pc = "find",
                              !.totalItems = count(db, call[p].query)]],
               {"count"})
    /\ UNCHANGED <<db, storage, creds, nextId, calls, declared, persisted,
                   completions, detached, sizeCase, timeCase, sigCase,
                   searchCase, routeCase, repoCase>>

SearchFind(p) ==
    /\ call[p].op = "searchFiles" /\ call[p].pc = "find"
    /\ \/ Step(p, [call EXCEPT ![p] =
                  Return(call[p], Fail(Wrap("DatabaseError",
                                      "Failed to find entities", MongoError)))],
                  {"find"})
       \/ \E mediaEntities \in find(db, call[p].query) :
              Step(p, [call EXCEPT ![p] =
                  SearchLoop(call[p], MapEntities(mediaEntities, <<>>,
                                                  call[p].includeUrls))],
                  {"find"})
    /\ UNCHANGED <<db, storage, creds, nextId, calls, declared, persisted,
                   completions, detached, sizeCase, timeCase, sigCase,
                   searchCase, routeCase, repoCase>>

\* the await in the loop: the URL of the entity at the head
SearchUrl(p) ==
    /\ call[p].op = "searchFiles" /\ call[p].pc = "url"
    /\ \E fault \in BOOLEAN :
           LET entity == Head(call[p].mediaEntities)
               downloadUrl == getDownloadUrl(storage, entity.id, fault)
               dto == [MediaMapper_toFileMetadataDto(entity) EXCEPT
                          !.url = IF downloadUrl.ok THEN downloadUrl.value
                                  ELSE NoUrl]
           IN  Step(p, [call EXCEPT ![p] =
                   SearchLoop(call[p],
                              MapEntities(Tail(call[p].mediaEntities),
                                          Append(call[p].mediaDtos, dto),
                                          call[p].includeUrls))],
                   {"getDownloadUrl"})
    /\ UNCHANGED <<db, storage, creds, nextId, calls, declared, persisted,
                   completions, detached, sizeCase, timeCase, sigCase,
                   searchCase, routeCase, repoCase>>

(***************************************************************************)
(* MediaController: the HTTP response to the result of a service call      *)
(***************************************************************************)
\* the statusCode of an ApplicationError
statusCode(kind) ==
    IF kind = "ValidationError" THEN 400
    ELSE IF kind = "NotFoundError" THEN 404
    ELSE IF kind = "MethodNotAllowedError" THEN 405
    ELSE 500

sendSuccess(data) ==
    [statusCode |-> 200, success |-> TRUE, data |-> data, error |-> "none"]

sendError(err) ==
    [statusCode |-> statusCode(err[1].kind), success |-> FALSE,
     data |-> NoValue, error |-> err[1].kind, message |-> err[1].message]

\* res.statusCode = 302 with the Location header
redirect(url) ==
    [statusCode |-> 302, success |-> TRUE, data |-> NoValue, error |-> "none",
     location |-> url]

\* MediaController.getDownloadUrl redirecting whatever the status and the URL
controllerGetDownloadUrlAnyStatus(res) ==
    IF ~res.ok THEN sendError(res.err)
    ELSE redirect(res.value.url)

\* MediaController.getDownloadUrl, given what mediaService.getFileMetadata did
controllerGetDownloadUrl(res) ==
    IF ~res.ok THEN sendError(res.err)
    ELSE LET metadata == res.value
         IN  IF metadata.status = INVALID
             THEN sendError(Err("ValidationError",
                      "File cannot be downloaded because it failed content validation. The file type does not match what was expected."))
             ELSE IF metadata.status = PENDING
             THEN sendError(Err("ValidationError", "File is not yet uploaded"))
             ELSE IF metadata.url = NoUrl
             THEN IF metadata.status = UPLOADED
                  THEN sendError(Err("ValidationError",
                           "File is still being processed. Please try again shortly."))
                  ELSE sendError(Err("ValidationError",
                           "File is not available for download"))
             ELSE redirect(metadata.url)

\* MediaController.deleteFile, given what mediaService.deleteFile did
controllerDeleteFile(res) ==
    IF ~res.ok THEN sendError(res.err)
    ELSE IF ~res.value
    THEN sendError(Err("NotFoundError", "File not found"))
    ELSE sendSuccess([success |-> TRUE])

(***************************************************************************)
(* Router (a path is the sequence of its parts between the slashes, after  *)
(* the leading one: "/" is <<"">> and "/api/v1/media/" ends with "")       *)
(***************************************************************************)
\* registerRoutes: this.routes in the order of registration
Routes ==
    <<[method |-> "POST", path |-> <<"api", "v1", "media", "upload-request">>,
       handler |-> "initiateUpload"],
      [method |-> "POST", path |-> <<"api", "v1", "media", "upload-complete">>,
       handler |-> "completeUpload"],
      [method |-> "GET", path |-> <<"api", "v1", "media", ":id">>,
       handler |-> "getFile"],
      [method |-> "PUT", path |-> <<"api", "v1", "media", ":id">>,
       handler |-> "updateFile"],
      [method |-> "DELETE", path |-> <<"api", "v1", "media", ":id">>,
       handler |-> "deleteFile"],
      [method |-> "GET", path |-> <<"api", "v1", "media", ":id", "download">>,
       handler |-> "getDownloadUrl"],
      [method |-> "GET", path |-> <<"api", "v1", "media">>,
       handler |-> "searchFiles"],
      [method |-> "GET", path |-> <<"health">>, handler |-> "health"],
      [method |-> "GET", path |-> <<"">>, handler |-> "documentation"]>>

\* routePart.startsWith(':'), of the parts of the registered paths
startsWithColon(part) == part \in {":id"}
\* path.includes(':')
includesColon(path) == \E i \in DOMAIN path : startsWithColon(path[i])

\* routeCache.get(`${method}:${path}`): the route registered last under the
\* key, among those without a parameter, or 0
routeCacheGet(method, path) ==
    LET hits == {i \in DOMAIN Routes : /\ ~includesColon(Routes[i].path)
                                       /\ Routes[i].method = method
                                       /\ Routes[i].path = path}
    IN  IF hits = {} THEN 0 ELSE CHOOSE i \in hits : \A j \in hits : j <= i

\* extractParams: null (matched is FALSE), or the params as name-value pairs
extractParams(routePath, actualPath) ==
    IF Len(routePath) # Len(actualPath)
    THEN [matched |-> FALSE, params |-> {}]
    ELSE IF \E i \in DOMAIN routePath : /\ ~startsWithColon(routePath[i])
                                        /\ routePath[i] # actualPath[i]
    THEN [matched |-> FALSE, params |-> {}]
    ELSE [matched |-> TRUE,
          params |-> {<<routePath[i], actualPath[i]>> :
                         i \in {j \in DOMAIN routePath :
                                   startsWithColon(routePath[j])}}]

\* pathToRegExp(routePath).test(path): each parameter is ([^/]+), one or
\* more characters other than a slash
pathToRegExp(routePath, path) ==
    /\ Len(routePath) = Len(path)
    /\ \A i \in DOMAIN routePath :
           IF startsWithColon(routePath[i]) THEN path[i] # ""
           ELSE routePath[i] = path[i]

findRoutesForPath(path) ==
    {i \in DOMAIN Routes :
        \/ Routes[i].path = path
        \/ includesColon(Routes[i].path) /\ pathToRegExp(Routes[i].path, path)}

\* the index of the route found, or 0, and the params
findRoute(method, path) ==
    LET cachedRoute == routeCacheGet(method, path)
        fits(i) == /\ Routes[i].method = method
                   /\ \/ Routes[i].path = path
                      \/ /\ includesColon(Routes[i].path)
                         /\ extractParams(Routes[i].path, path).matched
        found == {i \in DOMAIN Routes : fits(i)}
        first == CHOOSE i \in found : \A j \in found : i <= j
    IN  IF cachedRoute # 0 THEN [route |-> cachedRoute, params |-> {}]
        ELSE IF found = {} THEN [route |-> 0, params |-> {}]
        ELSE [route |-> first,
              params |-> IF Routes[first].path = path THEN {}
                         ELSE extractParams(Routes[first].path, path).params]

\* Router.handle up to the handler it invokes or the answer it sends
handle(method, path) ==
    IF method = "OPTIONS"
    THEN [NoAnswer EXCEPT !.statusCode = 204,
                          !.allowedMethods = {Routes[i].method :
                                                 i \in findRoutesForPath(path)}]
    ELSE LET found == findRoute(method, path)
         IN  IF found.route # 0
             THEN [NoAnswer EXCEPT !.handler = Routes[found.route].handler,
                                   !.params = found.params]
             ELSE IF findRoutesForPath(path) # {}
             THEN [NoAnswer EXCEPT
                      !.statusCode = statusCode("MethodNotAllowedError"),
                      !.allowedMethods = {Routes[i].method :
                                             i \in findRoutesForPath(path)}]
             ELSE [NoAnswer EXCEPT !.statusCode = statusCode("NotFoundError")]

\* req.method and the pathname of req.url
MethodInputs == {"GET", "POST", "PUT", "DELETE", "OPTIONS", "PATCH"}
PathInputs ==
    {<<"">>, <<"health">>, <<"health", "">>, <<"nothing">>,
     <<"api", "v1", "media">>, <<"api", "v1", "media", "">>,
     <<"api", "v1", "media", "f1">>, <<"api", "v1", "media", "upload-request">>,
     <<"api", "v1", "media", "upload-complete">>,
     <<"api", "v1", "media", "f1", "download">>,
     <<"api", "v1", "media", "", "download">>,
     <<"api", "v1", "media", "f1", "upload">>,
     <<"api", "v1", "media", ":id">>}

RouteRequest ==
    /\ routeCase.op = "idle"
    /\ \E method \in MethodInputs, path \in PathInputs :
           routeCase' = [NoRouteCase EXCEPT !.op = "request",
                                            !.method = method, !.path = path]
    /\ UNCHANGED <<db, storage, creds, nextId, calls, call, declared, persisted,
                   completions, effects, returned, detached, sizeCase,
                   timeCase, sigCase, searchCase, repoCase>>

RouteHandle ==
    /\ routeCase.op = "request"
    /\ routeCase' = [routeCase EXCEPT
                        !.op = "handled",
                        !.answer = handle(routeCase.method, routeCase.path)]
    /\ UNCHANGED <<db, storage, creds, nextId, calls, call, declared, persisted,
                   completions, effects, returned, detached, sizeCase,
                   timeCase, sigCase, searchCase, repoCase>>

(***************************************************************************)
(* One GET /media from its query string to its pagination                  *)
(***************************************************************************)
\* the query strings: each parameter missing or with one of a few values
SearchParams ==
    [status : {null, PENDING}, mimeType : {null, "image/png"},
     fileName : {null, "A"},
     startDate : {null, "2024-01-02"}, endDate : {null, "2024-01-02"},
     minSize : {null, "0", "100"}, maxSize : {null, "0", "100"},
     page : {null, "0", "2", "abc"}, limit : {null, "10", "150", "-1"},
     sortBy : {null, "size"}, sortOrder : {null, "asc", "up"}]
\* what count may answer
TotalInputs == {0, 1, 20, 25, 101}

\* a request arrives
SearchRequest ==
    /\ searchCase.op = "idle"
    /\ \E params \in SearchParams :
           searchCase' = [NoSearchCase EXCEPT !.op = "request",
                                              !.params = params]
    /\ UNCHANGED <<db, storage, creds, nextId, calls, call, declared, persisted,
                   completions, effects, returned, detached, sizeCase,
                   timeCase, sigCase, routeCase, repoCase>>

\* the controller builds the filter and calls searchFiles, which builds the
\* query and the options and awaits count
SearchStart ==
    /\ searchCase.op = "request"
    /\ LET filter == searchFilter(searchCase.params)
       IN  searchCase' = [searchCase EXCEPT !.op = "count",
                                            !.filter = filter,
                                            !.query = searchQuery(filter),
                                            !.options = searchOptions(filter)]
    /\ UNCHANGED <<db, storage, creds, nextId, calls, call, declared, persisted,
                   completions, effects, returned, detached, sizeCase,
                   timeCase, sigCase, routeCase, repoCase>>

\* count answers, find gets the options, and the result takes its pagination
\* (the items of the page are those of SearchFind and SearchUrl)
SearchReply ==
    /\ searchCase.op = "count"
    /\ \E totalItems \in TotalInputs :
           searchCase' = [searchCase EXCEPT
               !.op = "done",
               !.pagination =
                   PaginatedResult(<<>>, totalItems,
                                   searchPage(searchCase.filter),
                                   searchLimit(searchCase.filter)).pagination]
    /\ UNCHANGED <<db, storage, creds, nextId, calls, call, declared, persisted,
                   completions, effects, returned, detached, sizeCase,
                   timeCase, sigCase, routeCase, repoCase>>

(***************************************************************************)
(* MediaRepository over the documents of the media collection              *)
(***************************************************************************)
\* the entities the service saves: pending ones have no location yet
RepoEntities ==
    {[id |-> id, originalName |-> name, mimeType |-> mimeType, size |-> size,
      status |-> status,
      key |-> IF status = PENDING THEN "" ELSE "uploads/object",
      bucket |-> IF status = PENDING THEN "" ELSE bucket] :
        id \in RepoIds, name \in {"a.jpg", "B.png"},
        mimeType \in {"image/jpeg", "image/png"}, size \in {100, 1000},
        status \in {PENDING, UPLOADED}}

toDocument(entity) ==
    [_id |-> entity.id, originalName |-> entity.originalName,
     mimeType |-> entity.mimeType, size |-> entity.size,
     status |-> entity.status, key |-> entity.key, bucket |-> entity.bucket]

toEntity(doc) ==
    [id |-> doc._id, originalName |-> doc.originalName,
     mimeType |-> doc.mimeType, size |-> doc.size, status |-> doc.status,
     key |-> doc.key, bucket |-> doc.bucket]

\* collection.updateOne(filter, {$set: set}, {upsert: true}): the collections
\* it may leave; one matching document takes the fields of $set, and when
\* none matches a document of the filter and $set is inserted
updateOne(docs, filter, set) ==
    LET matched == {doc \in docs : doc._id = filter._id}
    IN  IF matched = {}
        THEN {docs \cup {[set EXCEPT !._id = filter._id]}}
        ELSE {(docs \ {doc}) \cup
                  {[doc EXCEPT !.originalName = set.originalName,
                               !.mimeType = set.mimeType, !.size = set.size,
                               !.status = set.status, !.key = set.key,
                               !.bucket = set.bucket]} : doc \in matched}

\* collection.findOne(filter): the documents it may answer with, or null
findOne(docs, filter) ==
    IF \E doc \in docs : doc._id = filter._id
    THEN {doc \in docs : doc._id = filter._id}
    ELSE {NoDocument}

\* collection.deleteOne(filter): the collections it may leave
deleteOne(docs, filter) ==
    IF \E doc \in docs : doc._id = filter._id
    THEN {docs \ {doc} : doc \in {d \in docs : d._id = filter._id}}
    ELSE {docs}

\* MediaRepository.save adding a document at every call
Repository_saveInserts(docs, entity) == {docs \cup {toDocument(entity)}}

\* MediaRepository.save: the collections it may leave (its dates are those
\* of saveDates)
Repository_save(docs, entity) ==
    updateOne(docs, [_id |-> toDocument(entity)._id], toDocument(entity))

\* MediaRepository.findById: the entities it may return, or null
Repository_findById(docs, id) ==
    {IF doc = NoDocument THEN NoEntity ELSE toEntity(doc) :
         doc \in findOne(docs, [_id |-> id])}

RepoSave ==
    /\ \E entity \in RepoEntities :
       \E docs \in Repository_save(repoCase.docs, entity) :
           repoCase' = [repoCase EXCEPT
                           !.op = "save", !.docs = docs, !.entity = entity,
                           !.id = entity.id, !.found = NoEntity,
                           !.deleted = FALSE,
                           !.saved = [@ EXCEPT ![entity.id] = entity],
                           !.matched = [@ EXCEPT ![entity.id] =
                               \E doc \in repoCase.docs :
                                   doc._id = entity.id]]
    /\ UNCHANGED <<db, storage, creds, nextId, calls, call, declared, persisted,
                   completions, effects, returned, detached, sizeCase,
                   timeCase, sigCase, searchCase, routeCase>>

RepoFind ==
    /\ \E id \in RepoIds :
       \E found \in Repository_findById(repoCase.docs, id) :
           repoCase' = [repoCase EXCEPT
                           !.op = "findById", !.id = id, !.found = found,
                           !.entity = NoEntity, !.deleted = FALSE]
    /\ UNCHANGED <<db, storage, creds, nextId, calls, call, declared, persisted,
                   completions, effects, returned, detached, sizeCase,
                   timeCase, sigCase, searchCase, routeCase>>

\* MediaRepository.deleteById: result.deletedCount > 0
RepoDelete ==
    /\ \E id \in RepoIds :
       \E docs \in deleteOne(repoCase.docs, [_id |-> id]) :
           repoCase' = [repoCase EXCEPT
                           !.op = "deleteById", !.id = id, !.docs = docs,
                           !.deleted = docs # repoCase.docs,
                           !.entity = NoEntity, !.found = NoEntity,
                           !.saved = [@ EXCEPT ![id] = NoEntity],
                           !.matched = [@ EXCEPT ![id] = FALSE]]
    /\ UNCHANGED <<db, storage, creds, nextId, calls, call, declared, persisted,
                   completions, effects, returned, detached, sizeCase,
                   timeCase, sigCase, searchCase, routeCase>>

(***************************************************************************)
(* The size check as a function of the two sizes                           *)
(***************************************************************************)
SizeInputs == {0, 100, 1000, 1200, 2024, 2025, 10240, 10250, 11264, 11265,
               89000, 90000, 100000}
\* the MIME type of the record, and the one storage reports ("" when unset)
DeclaredMimeInputs == {"image/jpeg", "image/png", "application/pdf"}
ActualMimeInputs == {"image/jpeg", "image/png", "text/html", OCTET_STREAM, ""}

SizeCheckPick ==
    /\ sizeCase.outcome = "idle"
    /\ \E d \in SizeInputs, a \in SizeInputs,
          dm \in DeclaredMimeInputs, am \in ActualMimeInputs :
           sizeCase' = [declared |-> d, actual |-> a, declaredMime |-> dm,
                        actualMime |-> am, outcome |-> "picked",
                        warned |-> FALSE]
    /\ UNCHANGED <<db, storage, creds, nextId, calls, call, declared, persisted,
                   completions, effects, returned, detached, timeCase, sigCase,
                   searchCase, routeCase, repoCase>>

SizeCheckApply ==
    /\ sizeCase.outcome = "picked"
    /\ LET check == validateUploadedFile(
                        [size |-> sizeCase.declared,
                         mimeType |-> sizeCase.declaredMime],
                        [size |-> sizeCase.actual,
                         mimeType |-> sizeCase.actualMime])
       IN  sizeCase' = [sizeCase EXCEPT
                          !.outcome = IF check.ok THEN "passed"
                                      ELSE "ValidationError",
                          !.warned = check.ok /\ check.value.warned]
    /\ UNCHANGED <<db, storage, creds, nextId, calls, call, declared, persisted,
                   completions, effects, returned, detached, timeCase, sigCase,
                   searchCase, routeCase, repoCase>>

(***************************************************************************)
(* The timestamps of a record through its persists                         *)
(***************************************************************************)
MaxClock == 4

\* createdAt, updatedAt of MediaMapper.toMediaEntity
toMediaEntityDates(now) ==
    [createdAt |-> now, updatedAt |-> now, uploadedAt |-> Undefined,
     present |-> TRUE]

\* uploadedAt, updatedAt of MediaMapper.toMediaEntityFromStorage: no createdAt
toMediaEntityFromStorageDates(uploadedAt, now) ==
    [createdAt |-> Undefined, updatedAt |-> now, uploadedAt |-> uploadedAt,
     present |-> TRUE]

\* the entity as MediaRepository.save leaves it; its three dates are also
\* what $set writes to the document
saveDates(entity, now) ==
    [entity EXCEPT !.createdAt = IF @ = Undefined THEN now ELSE @,
                   !.updatedAt = now]

\* time passes
TimeTick ==
    /\ timeCase.now < MaxClock
    /\ timeCase' = [timeCase EXCEPT !.now = @ + 1]
    /\ UNCHANGED <<db, storage, creds, nextId, calls, call, declared, persisted,
                   completions, effects, returned, detached, sizeCase, sigCase,
                   searchCase, routeCase, repoCase>>

\* the client uploads a body: storage sets LastModified
TimePut ==
    /\ timeCase.doc.present /\ timeCase.lastModified # timeCase.now
    /\ timeCase' = [timeCase EXCEPT !.lastModified = timeCase.now]
    /\ UNCHANGED <<db, storage, creds, nextId, calls, call, declared, persisted,
                   completions, effects, returned, detached, sizeCase, sigCase,
                   searchCase, routeCase, repoCase>>

\* an operation builds the entity it is going to save
TimeBuild ==
    /\ timeCase.op = "idle"
    /\ \/ /\ ~timeCase.doc.present
          /\ timeCase' = [timeCase EXCEPT
                            !.op = "initiateUpload", !.saves = 1,
                            !.ent = toMediaEntityDates(timeCase.now)]
       \/ /\ timeCase.doc.present
          /\ timeCase' = [timeCase EXCEPT
                            !.op = "updateFile", !.saves = 1,
                            !.ent = toMediaEntityDates(timeCase.now)]
       \/ /\ timeCase.doc.present /\ timeCase.lastModified # Undefined
          /\ timeCase' = [timeCase EXCEPT
                            !.op = "completeUpload", !.saves = 2,
                            !.ent = toMediaEntityFromStorageDates(
                                        timeCase.lastModified, timeCase.now)]
    /\ UNCHANGED <<db, storage, creds, nextId, calls, call, declared, persisted,
                   completions, effects, returned, detached, sizeCase, sigCase,
                   searchCase, routeCase, repoCase>>

\* the operation saves its entity; completeUpload saves the same entity twice
TimeSave ==
    /\ timeCase.op # "idle"
    /\ LET entity == saveDates(timeCase.ent, timeCase.now)
       IN  timeCase' = [timeCase EXCEPT
                          !.doc = entity,
                          !.ent = IF timeCase.saves = 1 THEN NoDoc ELSE entity,
                          !.saves = @ - 1,
                          !.op = IF timeCase.saves = 1 THEN "idle" ELSE @]
    /\ UNCHANGED <<db, storage, creds, nextId, calls, call, declared, persisted,
                   completions, effects, returned, detached, sizeCase, sigCase,
                   searchCase, routeCase, repoCase>>

(***************************************************************************)
(* The signature validator on its own                                      *)
(***************************************************************************)
\* s followed by zero bytes up to the length n
Pad(s, n) == s \o [i \in 1..(n - Len(s)) |-> 0]

TableSignatures ==
    {FILE_SIGNATURES[i].signature : i \in 1..Len(FILE_SIGNATURES)}

\* buffers: every signature of the table bare, in 8 bytes and in 12, the
\* same behind four leading bytes, every signature with its last byte
\* changed, and buffers that hold no signature
BufferInputs ==
    TableSignatures
    \cup {Pad(sig, 8) : sig \in TableSignatures}
    \cup {Pad(sig, 12) : sig \in TableSignatures}
    \cup {<<0, 0, 0, 24>> \o Pad(sig, 8) : sig \in TableSignatures}
    \cup {Pad([sig EXCEPT ![Len(sig)] = 1], 8) : sig \in TableSignatures}
    \cup {<<>>, <<1, 2, 3>>, <<1, 2, 3, 4, 5, 6, 7>>, <<1, 2, 3, 4, 5, 6, 7, 8>>}

\* claimed MIME types: those of the table, two that a table entry is a proper
\* prefix of, and four the table does not list
ClaimedInputs ==
    {FILE_SIGNATURES[i].mimeType : i \in 1..Len(FILE_SIGNATURES)}
    \cup {pair[1] : pair \in ProperPrefixes}
    \cup {"text/plain", "application/json", OCTET_STREAM, ""}

SigPick ==
    /\ sigCase.op = "idle"
    /\ \E buffer \in BufferInputs, claimedMimeType \in ClaimedInputs :
           sigCase' = [NoSigCase EXCEPT !.buffer = buffer,
                                        !.claimedMimeType = claimedMimeType,
                                        !.op = "picked"]
    /\ UNCHANGED <<db, storage, creds, nextId, calls, call, declared, persisted,
                   completions, effects, returned, detached, sizeCase, timeCase,
                   searchCase, routeCase, repoCase>>

SigValidate ==
    /\ sigCase.op = "picked"
    /\ sigCase' = [sigCase EXCEPT
                      !.op = "validateFileContent",
                      !.valid = validateFileContent(sigCase.buffer,
                                                    sigCase.claimedMimeType)]
    /\ UNCHANGED <<db, storage, creds, nextId, calls, call, declared, persisted,
                   completions, effects, returned, detached, sizeCase, timeCase,
                   searchCase, routeCase, repoCase>>

SigDetect ==
    /\ sigCase.op = "picked"
    /\ sigCase' = [sigCase EXCEPT !.op = "detectMimeType",
                                  !.detected = detectMimeType(sigCase.buffer)]
    /\ UNCHANGED <<db, storage, creds, nextId, calls, call, declared, persisted,
                   completions, effects, returned, detached, sizeCase, timeCase,
                   searchCase, routeCase, repoCase>>

(***************************************************************************)
(* Specifications                                                          *)
(***************************************************************************)
Next ==
    \/ \E p \in Procs : StartInitiate(p)
    \/ \E p \in Procs : StartComplete(p)
    \/ \E p \in Procs : StartUpdate(p)
    \/ \E p \in Procs : StartDelete(p)
    \/ ClientPut
    \/ \E p \in Procs : InitiateSave(p)
    \/ \E p \in Procs : InitiateUrl(p)
    \/ \E p \in Procs : CompleteFind(p)
    \/ \E p \in Procs : CompleteVerify(p)
    \/ \E p \in Procs : CompleteMetadata(p)
    \/ \E p \in Procs : CompleteSave1(p)
    \/ \E p \in Procs : CompleteValidate(p)
    \/ \E p \in Procs : CompleteSave2(p)
    \/ \E p \in Procs : CompleteUrl(p)
    \/ \E p \in Procs : UpdateFind(p)
    \/ \E p \in Procs : UpdateDelete(p)
    \/ \E p \in Procs : UpdateSave(p)
    \/ \E p \in Procs : UpdateUrl(p)
    \/ \E p \in Procs : DeleteStorage(p)
    \/ \E p \in Procs : DeleteDatabase(p)

Spec == Init /\ [][Next]_vars

SearchNext == SearchRequest \/ SearchStart \/ SearchReply

SpecSearch == Init /\ [][SearchNext]_vars

RouteNext == RouteRequest \/ RouteHandle

SpecRoute == Init /\ [][RouteNext]_vars

RepoNext == RepoSave \/ RepoFind \/ RepoDelete

SpecRepo == Init /\ [][RepoNext]_vars

SizeNext == SizeCheckPick \/ SizeCheckApply

SigNext == SigPick \/ SigValidate \/ SigDetect

SpecSig == Init /\ [][SigNext]_vars

SpecSize == Init /\ [][SizeNext]_vars

TimeNext == TimeTick \/ TimePut \/ TimeBuild \/ TimeSave

SpecTime == Init /\ [][TimeNext]_vars

\* One call on a store that earlier calls have left.  The records are those
\* initiateUpload, updateFile and completeUpload persist, the objects those
\* a client has put (or none: never uploaded, or deleted); the ids from
\* nextId on have not been generated yet.
StoredObjects == [Names -> PutObjects \cup {NoObj}]

StoredRecords(id) ==
    {NoRec}
    \cup {toMediaEntity(request, id) :
             request \in {r \in Requests : validateUploadRequest(r).ok}}
    \cup {[toMediaEntityFromStorage(
              getMetadata([other \in Ids |-> objects], id, FALSE).value)
             EXCEPT !.originalName = request.fileName, !.status = status] :
             objects \in {o \in StoredObjects : \E n \in Names : o[n] # NoObj},
             request \in {r \in Requests : validateUploadRequest(r).ok},
             status \in {UPLOADED, VALIDATED, INVALID}}

InitRead ==
    /\ nextId \in 1..(MaxIds + 1)
    /\ db \in [Ids -> UNION {StoredRecords(rid) : rid \in Ids}]
    /\ \A rid \in Ids : db[rid] \in StoredRecords(rid)
    /\ \A rid \in Ids : rid >= nextId => db[rid] = NoRec
    /\ storage \in [Ids -> StoredObjects]
    /\ \A rid \in Ids : rid >= nextId => ObjectNames(storage, rid) = {}
    /\ creds = {}
    /\ calls = MaxCalls - 1
    /\ call = [p \in Procs |-> Idle]
    /\ declared = [i \in Ids |-> NoReq]
    /\ persisted = {}
    /\ completions = [i \in Ids |-> {}]
    /\ effects = [p \in Procs |-> {}]
    /\ returned = NoResponse
    /\ detached = {}
    /\ sizeCase = NoSizeCase
    /\ timeCase = NoTimeCase
    /\ sigCase = NoSigCase
    /\ searchCase = NoSearchCase
    /\ routeCase = NoRouteCase
    /\ repoCase = NoRepoCase

ReadNext ==
    \/ \E p \in Procs : StartGet(p)
    \/ \E p \in Procs : StartSearch(p)
    \/ \E p \in Procs : StartInitiate(p)
    \/ \E p \in Procs : StartDelete(p)
    \/ \E p \in Procs : InitiateSave(p)
    \/ \E p \in Procs : InitiateUrl(p)
    \/ \E p \in Procs : DeleteStorage(p)
    \/ \E p \in Procs : DeleteDatabase(p)
    \/ \E p \in Procs : StartComplete(p)
    \/ \E p \in Procs : StartUpdate(p)
    \/ \E p \in Procs : GetFind(p)
    \/ \E p \in Procs : GetUrl(p)
    \/ \E p \in Procs : SearchCount(p)
    \/ \E p \in Procs : SearchFind(p)
    \/ \E p \in Procs : SearchUrl(p)
    \/ \E p \in Procs : CompleteFind(p)
    \/ \E p \in Procs : CompleteVerify(p)
    \/ \E p \in Procs : CompleteMetadata(p)
    \/ \E p \in Procs : CompleteSave1(p)
    \/ \E p \in Procs : CompleteValidate(p)
    \/ \E p \in Procs : CompleteSave2(p)
    \/ \E p \in Procs : CompleteUrl(p)
    \/ \E p \in Procs : UpdateFind(p)
    \/ \E p \in Procs : UpdateDelete(p)
    \/ \E p \in Procs : UpdateSave(p)
    \/ \E p \in Procs : UpdateUrl(p)

SpecRead == InitRead /\ [][ReadNext]_vars

\* the next step of the call in slot p: its pending await settles
CallStep(p) ==
    \/ GetFind(p) \/ GetUrl(p)
    \/ SearchCount(p) \/ SearchFind(p) \/ SearchUrl(p)
    \/ CompleteFind(p) \/ CompleteVerify(p) \/ CompleteMetadata(p)
    \/ CompleteSave1(p) \/ CompleteValidate(p) \/ CompleteSave2(p)
    \/ CompleteUrl(p)
    \/ UpdateFind(p) \/ UpdateDelete(p) \/ UpdateSave(p) \/ UpdateUrl(p)
    \/ InitiateSave(p) \/ InitiateUrl(p)
    \/ DeleteStorage(p) \/ DeleteDatabase(p)

\* One call on a store that earlier calls have left, with every await of the
\* call settling, with a value or an error: the event loop runs the
\* continuation of each promise that has settled
SpecLive == SpecRead /\ \A p \in Procs : WF_vars(CallStep(p))

(***************************************************************************)
(* Properties                                                              *)
(***************************************************************************)
Acts(p, op, pc) == call[p].op = op /\ call[p].pc = pc /\ call'[p].pc # pc
\* the call that returned last is a call of op
ReturnedBy(op) == returned.call.op = op
\* a step by which a call returns; returned' is then what it returned
Returns == returned' # NoResponse
\* what the url of a DTO for the id can be: none, or a URL of one of its keys
UrlsOf(id) == {NoUrl} \cup {<<id, n>> : n \in Names}

\* some entry of the signature table is a prefix of the MIME type
HasSignatureEntry(mimeType) ==
    \E i \in 1..Len(FILE_SIGNATURES) :
        StartsWith(mimeType, FILE_SIGNATURES[i].mimeType)

\* the bytes carry a signature of the MIME type
MatchesSignatureOf(bytes, mimeType) ==
    \E i \in 1..Len(FILE_SIGNATURES) :
        /\ StartsWith(mimeType, FILE_SIGNATURES[i].mimeType)
        /\ SignatureMatches(bytes, FILE_SIGNATURES[i])

\* C1: whenever a completeUpload call finds the content valid (and so
\* persists status validated), the bytes stored for the id match a signature
\* of the MIME type declared by the last initiateUpload/updateFile for the
\* id, or that declared type has no entry in the signature table.
C1_ValidatedOnlyForDeclaredType ==
    [][\A p \in Procs :
          (Acts(p, "completeUpload", "validate")
             /\ call'[p].ent.status = VALIDATED)
          => LET body == storage[call[p].id][FirstObjectName(storage, call[p].id)].body
             IN  \/ ~HasSignatureEntry(call[p].decl.mimeType)
                 \/ MatchesSignatureOf(SampleBytes(body), call[p].decl.mimeType)]_vars

\* C2: every change of the status of a persisted record is pending ->
\* uploaded, uploaded -> validated, uploaded -> invalid, or to pending.
C2_StatusTransitions ==
    [][\A id \in Ids :
          (db[id] # NoRec /\ db'[id] # NoRec /\ db'[id].status # db[id].status)
          => \/ <<db[id].status, db'[id].status>> \in
                   {<<PENDING, UPLOADED>>, <<UPLOADED, VALIDATED>>,
                    <<UPLOADED, INVALID>>}
             \/ db'[id].status = PENDING]_vars

\* C3: the completeUpload calls that ran against one unchanged stored object
\* and one unchanged declaration, without a sampling failure, all persisted
\* the same status, MIME type and size.
C3_RepeatedCompletionSameRecord ==
    \A id \in Ids : Cardinality(completions[id]) <= 1

\* C4: a record comes into existence only by the save of initiateUpload and
\* goes out of existence only by the deleteById of deleteFile.
C4_OnlyInitiateCreates ==
    [][\A id \in Ids :
          /\ (db[id] = NoRec /\ db'[id] # NoRec)
             => \E p \in Procs : Acts(p, "initiateUpload", "save")
                                 /\ call[p].id = id
          /\ (db[id] # NoRec /\ db'[id] = NoRec)
             => \E p \in Procs : Acts(p, "deleteFile", "database")
                                 /\ call[p].id = id]_vars

\* C5: an initiateUpload call that is about to request, or has obtained, the
\* upload credential for an id has saved a pending record with that id, and
\* every credential handed out is for an id initiateUpload saved as pending.
C5_RecordBeforeCredential ==
    /\ \A p \in Procs :
          (call[p].op = "initiateUpload" /\ call[p].pc = "url")
          => <<call[p].id, PENDING>> \in persisted
    /\ (ReturnedBy("initiateUpload") /\ returned.call.res.ok)
       => /\ <<returned.call.res.value.uploadId, PENDING>> \in persisted
          /\ returned.call.res.value.uploadId = returned.call.id
    /\ \A c \in creds : <<c[1], PENDING>> \in persisted

C5_Witness ==
    /\ ReturnedBy("initiateUpload") /\ returned.call.res.ok
    /\ <<returned.call.res.value.uploadId, returned.call.req.fileName>> \in creds

\* C6: when the store answers that the id has no record, and when storage
\* answers that the id has no object, completeUpload fails with a
\* NotFoundError.
C6_AbsenceIsNotFound ==
    [][\A p \in Procs :
          /\ (Acts(p, "completeUpload", "find") /\ db[call[p].id] = NoRec
                /\ call'[p] = Idle
                /\ RootCause(returned'.call.res).kind # "MongoError")
             => Kind(returned'.call.res) = "NotFoundError"
          /\ (Acts(p, "completeUpload", "verify")
                /\ ObjectNames(storage, call[p].id) = {}
                /\ call'[p] = Idle
                /\ RootCause(returned'.call.res).kind # "Error")
             => Kind(returned'.call.res) = "NotFoundError"]_vars

StatusOf(sig) == IF sig = "match" THEN VALIDATED ELSE INVALID

\* C8 as stated: once the consistency check has passed, completeUpload
\* returns a successful result whose status is validated on a signature
\* match and invalid on a mismatch or a sampling failure, and that status
\* is the one the call persisted.
C8_CompletionAlwaysSucceeds ==
    (ReturnedBy("completeUpload") /\ returned.call.checked)
    => /\ returned.call.res.ok
       /\ returned.call.sig # "none"
       /\ returned.call.res.value.status = StatusOf(returned.call.sig)
       /\ returned.call.saved = returned.call.res.value.status

\* C8, amended: once the consistency check has passed, completeUpload fails
\* only with the DatabaseError of one of its two saves; otherwise it returns
\* a successful result whose status is validated on a signature match and
\* invalid on a mismatch or a sampling failure, and that status is the one
\* the call persisted.
C8_SignatureOutcomeIsStatus ==
    (ReturnedBy("completeUpload") /\ returned.call.checked
       /\ Kind(returned.call.res) # "DatabaseError")
    => /\ returned.call.res.ok
       /\ returned.call.sig # "none"
       /\ returned.call.res.value.status = StatusOf(returned.call.sig)
       /\ returned.call.saved = returned.call.res.value.status

C8_Witness ==
    /\ ReturnedBy("completeUpload") /\ returned.call.checked
    /\ returned.call.sig = "ioerror" /\ returned.call.res.ok
    /\ returned.call.res.value.status = INVALID
    /\ db[returned.call.id].status = INVALID

\* the request names a MIME type outside the allow-list or a size above the
\* maximum
ViolatesPolicy(request) ==
    request.mimeType \notin allowedMimeTypes \/ request.size > maxFileSize

\* C9: an initiateUpload whose request names a MIME type outside the
\* allow-list, or a size above the maximum, goes no further than the
\* validation of the request, and returns a ValidationError.
C9_PolicyViolationsRejected ==
    /\ \A p \in Procs :
          call[p].op = "initiateUpload" => ~ViolatesPolicy(call[p].req)
    /\ (ReturnedBy("initiateUpload") /\ ViolatesPolicy(returned.call.req))
       => Kind(returned.call.res) = "ValidationError"

C9_Witness ==
    /\ ReturnedBy("initiateUpload")
    /\ returned.call.req.mimeType \in allowedMimeTypes
    /\ returned.call.req.size > maxFileSize
    /\ Kind(returned.call.res) = "ValidationError"

\* C10: the step by which initiateUpload or updateFile returns the
\* ValidationError of its request changes neither the metadata store nor the
\* bucket nor the
\* credentials handed out, and the call has made no collaborator call.
C10_RejectedRequestHasNoEffect ==
    [][(Returns /\ returned'.call.op \in {"initiateUpload", "updateFile"}
          /\ Kind(returned'.call.res) = "ValidationError")
       => /\ UNCHANGED <<db, storage, creds>>
          /\ returned'.effects = {}]_vars

C10_Witness ==
    /\ ReturnedBy("updateFile")
    /\ Kind(returned.call.res) = "ValidationError"
    /\ db[returned.call.id] # NoRec
    /\ returned.effects = {}

\* C11: the step by which initiateUpload fails to obtain the credential
\* returns a StorageError and leaves the metadata store as it is: the pending
\* record the call saved is not removed.
C11_FailedCredentialKeepsRecord ==
    [][\A p \in Procs :
          (Acts(p, "initiateUpload", "url") /\ ~returned'.call.res.ok)
          => /\ Kind(returned'.call.res) = "StorageError"
             /\ <<call[p].id, PENDING>> \in persisted
             /\ UNCHANGED db]_vars

C11_Witness ==
    /\ ReturnedBy("initiateUpload")
    /\ Kind(returned.call.res) = "StorageError"
    /\ db[returned.call.id] = toMediaEntity(returned.call.req, returned.call.id)
    /\ \A c \in creds : c[1] # returned.call.id

\* the name, MIME type and size a record holds
DeclaredFields(record) ==
    <<record.originalName, record.mimeType, record.size>>

\* C12: the original name, MIME type and size of a record that stays in the
\* store change only by the save of updateFile.
C12_DeclaredFieldsOnlyByUpdate ==
    [][\A id \in Ids :
          (db[id] # NoRec /\ db'[id] # NoRec
             /\ DeclaredFields(db'[id]) # DeclaredFields(db[id]))
          => \E p \in Procs : Acts(p, "updateFile", "save")
                              /\ call[p].id = id]_vars

\* C13: a persist of a record that is in the store leaves its createdAt as it
\* was, and every persist sets updatedAt to the time of the persist.
C13_CreatedAtSetOnce ==
    [][(timeCase'.doc # timeCase.doc)
       => /\ timeCase'.doc.updatedAt = timeCase.now
          /\ timeCase.doc.present
             => timeCase'.doc.createdAt = timeCase.doc.createdAt]_vars

\* C14: whatever the outcome of the storage deletion, deleteFile goes on to
\* the metadata deletion, remembering whether an object was deleted; the
\* metadata deletion removes the record, and the result is true exactly when
\* an object was deleted and a record was deleted.
C14_DeleteResult ==
    [][\A p \in Procs :
          /\ Acts(p, "deleteFile", "storage")
             => /\ call'[p].pc = "database"
                /\ call'[p].storageDeleted
                   <=> ObjectNames(storage', call[p].id)
                          # ObjectNames(storage, call[p].id)
          /\ (Acts(p, "deleteFile", "database") /\ returned'.call.res.ok)
             => /\ returned'.call.res.value
                   <=> (call[p].storageDeleted /\ db[call[p].id] # NoRec)
                /\ db'[call[p].id] = NoRec]_vars

\* the storage deletion failed, the record is gone and the result is false
C14_Witness ==
    /\ ReturnedBy("deleteFile") /\ returned.call.res.ok
    /\ returned.call.res.value = FALSE
    /\ db[returned.call.id] = NoRec
    /\ ObjectNames(storage, returned.call.id) # {}
    /\ "deleteById" \in returned.effects

\* C15: when deleteFile returns a result, DELETE /media/:id answers with a
\* success response whose data carry a field deleted equal to that result.
C15_DeleteResponseReportsResult ==
    (ReturnedBy("deleteFile") /\ returned.call.res.ok)
    => LET response == controllerDeleteFile(returned.call.res)
       IN  /\ response.success
           /\ "deleted" \in DOMAIN response.data
           /\ response.data.deleted = returned.call.res.value

\* C16: an updateFile that has found the record goes on to its save whatever
\* the deletion of the previous object did; its save, when the store accepts
\* it, leaves the record pending with the name, MIME type and size of the
\* request and an empty key and bucket; and the credential step, whatever
\* its outcome, leaves the record as saved.
C16_UpdateResetsRecord ==
    [][\A p \in Procs :
          /\ Acts(p, "updateFile", "delete") => call'[p].pc = "save"
          /\ (Acts(p, "updateFile", "save") /\ call'[p].pc = "url")
             => db'[call[p].id] =
                   [id |-> call[p].id, originalName |-> call[p].req.fileName,
                    mimeType |-> call[p].req.mimeType,
                    size |-> call[p].req.size, status |-> PENDING,
                    key |-> "", bucket |-> ""]
          /\ Acts(p, "updateFile", "url") => UNCHANGED db]_vars

\* the previous object could not be deleted and the credential could not be
\* issued, and the record is reset to the request
C16_Witness ==
    /\ ReturnedBy("updateFile")
    /\ Kind(returned.call.res) = "StorageError"
    /\ ObjectNames(storage, returned.call.id) # {}
    /\ db[returned.call.id].status = PENDING
    /\ db[returned.call.id].mimeType = "image/png"
    /\ db[returned.call.id].key = ""

\* C17: when the store answers updateFile that the id has no record, the
\* call returns a NotFoundError at once: it has called nothing but findById,
\* and the store, the bucket and the credentials are as they were.
C17_UpdateOfMissingRecord ==
    [][\A p \in Procs :
          (Acts(p, "updateFile", "find") /\ db[call[p].id] = NoRec
             /\ Kind(returned'.call.res) # "DatabaseError")
          => /\ call'[p] = Idle
             /\ Kind(returned'.call.res) = "NotFoundError"
             /\ returned'.effects = {"findById"}
             /\ UNCHANGED <<db, storage, creds>>]_vars

C17_Witness ==
    /\ ReturnedBy("updateFile")
    /\ Kind(returned.call.res) = "NotFoundError"
    /\ db[returned.call.id] = NoRec
    /\ returned.effects = {"findById"}

\* C18: a completeUpload begun after updateFile has returned successfully
\* for its id, with no body uploaded since, does not get past the
\* verification of the upload: it fails there, or at the lookup of the
\* record before it.
C18_DetachedFromPreviousObject ==
    [][\A p \in Procs :
          (Acts(p, "completeUpload", "verify") /\ call[p].id \in detached)
          => call'[p] = Idle]_vars

C20_BestEffortNeverFails ==
    [][\A p \in Procs :
          /\ (Acts(p, "completeUpload", "url") \/ Acts(p, "getFileMetadata", "url")) =>
                 /\ returned'.call.res.ok
                 /\ \E url \in UrlsOf(call[p].id) :
                        returned'.call.res.value = toFileMetadataDto(call[p].ent, url)
                 /\ ObjectNames(storage, call[p].id) = {} =>
                        returned'.call.res.value.url = NoUrl
          /\ (call[p].op = "searchFiles" /\ call[p].pc = "url" /\ call'[p] # call[p]) =>
                 LET entity == Head(call[p].mediaEntities)
                     dtos == IF Returns THEN returned'.call.res.value.items
                             ELSE call'[p].mediaDtos
                     k == Len(call[p].mediaDtos) + 1
                 IN  /\ Returns => returned'.call.res.ok
                     /\ ~Returns => call'[p].op = "searchFiles"
                     /\ Len(dtos) >= k
                     /\ \E url \in UrlsOf(entity.id) :
                            dtos[k] = [MediaMapper_toFileMetadataDto(entity)
                                         EXCEPT !.url = url]
                     /\ ObjectNames(storage, entity.id) = {} => dtos[k].url = NoUrl
          /\ Acts(p, "updateFile", "delete") =>
                 /\ call'[p].op = "updateFile" /\ call'[p].pc = "save"
                 /\ call'[p].ent = toMediaEntity(call[p].req, call[p].id)]_vars

\* updateFile has returned its credential although the previous object is
\* still stored: its deletion had failed
C20_Witness ==
    /\ ReturnedBy("updateFile") /\ returned.call.res.ok
    /\ "deleteFile" \in returned.effects
    /\ ObjectNames(storage, returned.call.id) # {}
    /\ db[returned.call.id] = toMediaEntity(returned.call.req, returned.call.id)

C22_MimeMismatchNeverFatal ==
    sizeCase.outcome \in {"passed", "ValidationError"}
    => LET difference == Abs(sizeCase.declared - sizeCase.actual)
           outOfTolerance == 10 * difference > sizeCase.declared
                             /\ difference > 1024
       IN  /\ sizeCase.outcome = "ValidationError" => outOfTolerance
           /\ (~outOfTolerance /\ sizeCase.declaredMime # sizeCase.actualMime)
                 => sizeCase.outcome = "passed"

\* a check that passed, with a warning, on a MIME type that differs from the
\* declared one
C22_Witness ==
    /\ sizeCase.outcome = "passed" /\ sizeCase.warned
    /\ sizeCase.declaredMime = "image/jpeg" /\ sizeCase.actualMime = "image/png"

\* C23: in every persisted record, status pending implies an empty storage
\* key and bucket, and status uploaded, validated or invalid implies that key
\* and bucket hold a location reported by storage: the key of an object
\* under the record's id and the provider's bucket.
C23_LocationFollowsStatus ==
    \A id \in Ids :
        db[id] # NoRec =>
            /\ db[id].status = PENDING =>
                   (db[id].key = "" /\ db[id].bucket = "")
            /\ db[id].status \in {UPLOADED, VALIDATED, INVALID} =>
                   (db[id].key \in Names /\ db[id].bucket = bucket)

\* a validated record with its key and bucket
C23_Witness ==
    \E id \in Ids :
        /\ db[id] # NoRec /\ db[id].status = VALIDATED
        /\ db[id].key \in Names /\ db[id].bucket = bucket

\* C24: whenever a completeUpload call has persisted status uploaded, that
\* call eventually persists validated or invalid, whatever the signature
\* check did: no completeUpload leaves a record resting in status uploaded.
C24_UploadedIsTransient ==
    \A p \in Procs :
        (call[p].op = "completeUpload" /\ call[p].saved = UPLOADED)
        ~> (ReturnedBy("completeUpload")
              /\ returned.call.saved \in {VALIDATED, INVALID})

\* C24 as the code has it: the call persists validated or invalid unless
\* its second save fails, in which case it ends with a DatabaseError
C24_UploadedIsTransientUnlessSaveFails ==
    \A p \in Procs :
        (call[p].op = "completeUpload" /\ call[p].saved = UPLOADED)
        ~> (ReturnedBy("completeUpload")
              /\ \/ returned.call.saved \in {VALIDATED, INVALID}
                 \/ (returned.call.saved = UPLOADED
                       /\ Kind(returned.call.res) = "DatabaseError"))

\* a completeUpload whose signature check failed on an I/O error has
\* persisted invalid after uploaded
C24_Witness ==
    /\ ReturnedBy("completeUpload") /\ returned.call.sig = "ioerror"
    /\ returned.call.saved = INVALID
    /\ db[returned.call.id].status = INVALID

\* C25: no call of initiateUpload, completeUpload, updateFile, deleteFile,
\* getFileMetadata or searchFiles persists a record with status failed:
\* started on any store whose records are pending, uploaded, validated or
\* invalid, each call leaves such a store again, so no sequence of calls
\* reaches a record with status failed.
C25_NeverFailed ==
    \A id \in Ids :
        /\ db[id] \in StoredRecords(id)
        /\ db[id] # NoRec =>
               db[id].status \in {PENDING, UPLOADED, VALIDATED, INVALID}

\* a completeUpload has ended on a storage failure and the record is still
\* pending, not failed
C25_Witness ==
    /\ ReturnedBy("completeUpload")
    /\ Kind(returned.call.res) = "StorageError"
    /\ db[returned.call.id] # NoRec
    /\ db[returned.call.id].status = PENDING

\* C26: the uploadId initiateUpload returns is the id of the pending record
\* it persisted, updateFile returns the id it was given, and every record is
\* stored under its own id at all times: the id that addresses the record is
\* the id under which its object is looked up.
C26_IdIsStable ==
    /\ (ReturnedBy("initiateUpload") /\ returned.call.res.ok) =>
           /\ returned.call.res.value.uploadId = returned.call.id
           /\ <<returned.call.res.value.uploadId, PENDING>> \in persisted
    /\ (ReturnedBy("updateFile") /\ returned.call.res.ok) =>
           /\ returned.call.res.value.uploadId = returned.call.id
           /\ returned.call.res.value.url[1] = returned.call.id
    /\ \A id \in Ids : db[id] # NoRec => db[id].id = id

\* updateFile has returned the id of the record it reset
C26_Witness ==
    /\ ReturnedBy("updateFile") /\ returned.call.res.ok
    /\ returned.call.res.value.uploadId = returned.call.id
    /\ db[returned.call.id] # NoRec
    /\ db[returned.call.id].id = returned.call.id

\* C27: validateFileContent returns true for every claimed MIME type that no
\* entry of the signature table is a prefix of, for every buffer.
C27_UnlistedTypesTrusted ==
    (sigCase.op = "validateFileContent"
       /\ ~HasSignatureEntry(sigCase.claimedMimeType))
    => sigCase.valid

\* C27 as the code has it: for such a type validateFileContent returns true
\* for every buffer of at least 8 bytes and false for every shorter one.
C27_UnlistedTypesTrustedFromEightBytes ==
    (sigCase.op = "validateFileContent"
       /\ ~HasSignatureEntry(sigCase.claimedMimeType))
    => (sigCase.valid <=> Len(sigCase.buffer) >= 8)

\* a buffer with the PNG signature claimed text/plain is valid
C27_Witness ==
    /\ sigCase.op = "validateFileContent"
    /\ sigCase.claimedMimeType = "text/plain"
    /\ sigCase.buffer = PngBytes
    /\ sigCase.valid

\* the signature of the entry equals the bytes of the buffer at its offset
EqualsBytesAt(buffer, entry) ==
    /\ Len(buffer) >= entry.offset + Len(entry.signature)
    /\ SubSeq(buffer, entry.offset + 1, entry.offset + Len(entry.signature))
          = entry.signature

\* C28: for a claimed MIME type that some table entry is a prefix of,
\* validateFileContent returns false when the buffer is shorter than 8 bytes
\* and otherwise returns true exactly when the signature of some selected
\* entry equals the bytes of the buffer at that entry's offset; a buffer
\* beginning FF D8 FF claimed image/jpeg is valid, a buffer beginning with
\* the PNG magic bytes claimed image/jpeg is not.
C28_ListedTypesNeedTheirSignature ==
    (sigCase.op = "validateFileContent"
       /\ HasSignatureEntry(sigCase.claimedMimeType))
    => /\ Len(sigCase.buffer) < 8 => ~sigCase.valid
       /\ Len(sigCase.buffer) >= 8 =>
              (sigCase.valid <=>
                  \E i \in 1..Len(FILE_SIGNATURES) :
                      /\ StartsWith(sigCase.claimedMimeType,
                                    FILE_SIGNATURES[i].mimeType)
                      /\ EqualsBytesAt(sigCase.buffer, FILE_SIGNATURES[i]))
       /\ (sigCase.claimedMimeType = "image/jpeg"
             /\ Len(sigCase.buffer) >= 8
             /\ SubSeq(sigCase.buffer, 1, 3) = <<255, 216, 255>>)
              => sigCase.valid
       /\ (sigCase.claimedMimeType = "image/jpeg"
             /\ Len(sigCase.buffer) >= 8
             /\ SubSeq(sigCase.buffer, 1, 8) = <<137, 80, 78, 71, 13, 10, 26, 10>>)
              => ~sigCase.valid

\* the PNG magic bytes claimed image/jpeg are not valid
C28_Witness ==
    /\ sigCase.op = "validateFileContent"
    /\ sigCase.claimedMimeType = "image/jpeg"
    /\ sigCase.buffer = <<137, 80, 78, 71, 13, 10, 26, 10>>
    /\ ~sigCase.valid

\* the entries whose signature equals the bytes of the buffer at their offset
EntriesEqualTo(buffer) ==
    {i \in 1..Len(FILE_SIGNATURES) : EqualsBytesAt(buffer, FILE_SIGNATURES[i])}

\* the first of the entries in the table's order
FirstOf(entries) == CHOOSE i \in entries : \A j \in entries : i <= j

\* C29: detectMimeType returns the MIME type of the first entry, in the
\* table's order, whose signature matches the buffer, and undefined when
\* none matches; a buffer beginning 50 4B 03 04 is reported as the
\* office-document entry and never as application/zip.
C29_FirstMatchInTableOrder ==
    sigCase.op = "detectMimeType"
    => /\ EntriesEqualTo(sigCase.buffer) = {} => sigCase.detected = undefined
       /\ EntriesEqualTo(sigCase.buffer) # {} =>
              sigCase.detected =
                  FILE_SIGNATURES[FirstOf(EntriesEqualTo(sigCase.buffer))].mimeType
       /\ (Len(sigCase.buffer) >= 4
             /\ SubSeq(sigCase.buffer, 1, 4) = <<80, 75, 3, 4>>)
              => sigCase.detected = "application/vnd.openxmlformats-officedocument"

\* C29 as the code has it: the same for every buffer of at least 8 bytes,
\* and undefined for every shorter buffer.
C29_FirstMatchFromEightBytes ==
    sigCase.op = "detectMimeType"
    => /\ Len(sigCase.buffer) < 8 => sigCase.detected = undefined
       /\ Len(sigCase.buffer) >= 8 =>
              /\ EntriesEqualTo(sigCase.buffer) = {} =>
                     sigCase.detected = undefined
              /\ EntriesEqualTo(sigCase.buffer) # {} =>
                     sigCase.detected =
                         FILE_SIGNATURES[FirstOf(EntriesEqualTo(sigCase.buffer))].mimeType
              /\ SubSeq(sigCase.buffer, 1, 4) = <<80, 75, 3, 4>> =>
                     sigCase.detected =
                         "application/vnd.openxmlformats-officedocument"
       /\ sigCase.detected # "application/zip"

\* a buffer beginning 50 4B 03 04 detected as the office-document entry
C29_Witness ==
    /\ sigCase.op = "detectMimeType"
    /\ sigCase.buffer = <<80, 75, 3, 4, 0, 0, 0, 0>>
    /\ sigCase.detected = "application/vnd.openxmlformats-officedocument"

\* C30: every entry of the signature table is matched at offset 0: for each
\* listed format, a buffer (of the 8 bytes the validator asks for, or more)
\* is accepted for that format exactly when its leading bytes equal the
\* entry's signature.
C30_EveryEntryAtOffsetZero ==
    (sigCase.op = "validateFileContent" /\ Len(sigCase.buffer) >= 8) =>
        \A i \in 1..Len(FILE_SIGNATURES) :
            sigCase.claimedMimeType = FILE_SIGNATURES[i].mimeType =>
                (sigCase.valid <=>
                    SubSeq(sigCase.buffer, 1, Len(FILE_SIGNATURES[i].signature))
                        = FILE_SIGNATURES[i].signature)

\* C31: whatever the page, the limit and the number of matching items,
\* searchFiles passes skip = (page - 1) * limit to find and answers
\* totalPages = ceil(totalItems / limit), hasNextPage = (page < totalPages)
\* and hasPreviousPage = (page > 1); with 25 items, limit 10 and page 2 that
\* is 3 pages, a next page and a previous page
C31_PaginationArithmetic ==
    searchCase.op = "done" =>
        LET page == searchCase.pagination.currentPage
            limit == searchCase.pagination.limit
            totalItems == searchCase.pagination.totalItems
            pages == searchCase.pagination.totalPages
        IN  /\ limit = searchCase.options.limit
            /\ searchCase.options.skip = (page - 1) * limit
            /\ pages * limit >= totalItems
            /\ (pages - 1) * limit < totalItems \/ (pages = 0 /\ totalItems = 0)
            /\ searchCase.pagination.hasNextPage <=> page < pages
            /\ searchCase.pagination.hasPreviousPage <=> page > 1
            /\ (totalItems = 25 /\ limit = 10 /\ page = 2) =>
                   /\ pages = 3
                   /\ searchCase.pagination.hasNextPage
                   /\ searchCase.pagination.hasPreviousPage
            /\ searchCase.params.page = "2" => page = 2
            /\ searchCase.params.limit = "10" => limit = 10

C31_Witness ==
    /\ searchCase.op = "done"
    /\ searchCase.params.page = "2" /\ searchCase.params.limit = "10"
    /\ searchCase.options.skip = 10
    /\ searchCase.pagination.totalItems = 25
    /\ searchCase.pagination.totalPages = 3
    /\ searchCase.pagination.hasNextPage
    /\ searchCase.pagination.hasPreviousPage

\* C32: a search that names no page gets page 1, one that names no limit gets
\* limit 20, one that names no sort is sorted by createdAt, descending; a
\* limit above 100 becomes 100.  The limit given to the store is never above
\* 100 and the page never below 1
C32_SearchDefaultsAndCap ==
    searchCase.op = "done" =>
        /\ searchCase.params.page = null => searchCase.pagination.currentPage = 1
        /\ searchCase.params.limit = null => searchCase.options.limit = 20
        /\ searchCase.params.sortBy = null =>
               searchCase.options.sortField = "createdAt"
        /\ searchCase.params.sortOrder = null =>
               searchCase.options.sortDirection = -1
        /\ searchCase.params.limit = "150" => searchCase.options.limit = 100
        /\ searchCase.options.limit <= 100
        /\ searchCase.options.limit >= 1
        /\ searchCase.pagination.currentPage >= 1
        /\ searchCase.options.skip >= 0

C32_Witness ==
    /\ searchCase.op = "done"
    /\ searchCase.params.limit = "150" /\ searchCase.params.page = null
    /\ searchCase.params.sortBy = null /\ searchCase.params.sortOrder = null
    /\ searchCase.options = [limit |-> 100, skip |-> 0,
                             sortField |-> "createdAt", sortDirection |-> -1]
    /\ searchCase.pagination.currentPage = 1

\* documents of a media collection: every status, type, name, day and size
\* around the bounds the requests carry
SampleDocs ==
    [status : {PENDING, VALIDATED}, mimeType : {"image/jpeg", "image/png"},
     originalName : {"a.jpg", "B.png"}, createdAt : 1..3,
     size : {0, 50, 100, 200}]

\* the filter holds what the query string said
FilterReadsParams ==
    LET params == searchCase.params
        filter == searchCase.filter
    IN  /\ \A k \in {"status", "mimeType", "fileName", "startDate", "endDate",
                     "minSize", "maxSize"} :
               k \in filter.keys <=> params[k] # null
        /\ params.status # null => filter.status = params.status
        /\ params.mimeType # null => filter.mimeType = params.mimeType
        /\ params.startDate = "2024-01-02" => filter.startDate = 2
        /\ params.endDate = "2024-01-02" => filter.endDate = 2
        /\ params.minSize = "0" => filter.minSize = 0
        /\ params.minSize = "100" => filter.minSize = 100
        /\ params.maxSize = "0" => filter.maxSize = 0
        /\ params.maxSize = "100" => filter.maxSize = 100

\* the four conditions of a filter on a document, each only if the filter
\* has the field
InFilterRanges(doc, filter) ==
    /\ "status" \in filter.keys => doc.status = filter.status
    /\ "mimeType" \in filter.keys => doc.mimeType = filter.mimeType
    /\ "startDate" \in filter.keys => doc.createdAt >= filter.startDate
    /\ "endDate" \in filter.keys => doc.createdAt <= filter.endDate
    /\ "minSize" \in filter.keys => doc.size >= filter.minSize
    /\ "maxSize" \in filter.keys => doc.size <= filter.maxSize

RawErrors == {"Error", "MongoError"}

\* C34: an operation that fails on a failed storage or metadata-store call
\* throws a StorageError or a DatabaseError that wraps the cause, never the
\* collaborator's own error; the other errors operations throw are
\* ValidationError and NotFoundError, which wrap nothing
C34_CollaboratorFailuresAreWrapped ==
    (returned # NoResponse /\ ~returned.call.res.ok) =>
        LET err == returned.call.res.err
        IN  /\ err[1].kind \in {"StorageError", "DatabaseError",
                                "ValidationError", "NotFoundError"}
            /\ err[Len(err)].kind \in RawErrors =>
                   Len(err) >= 2 /\ err[1].kind \in {"StorageError",
                                                     "DatabaseError"}
            /\ err[1].kind \in {"StorageError", "DatabaseError"} => Len(err) >= 2
            /\ err[1].kind = "DatabaseError" => err[Len(err)].kind = "MongoError"
            /\ err[1].kind \in {"ValidationError", "NotFoundError"} =>
                   Len(err) = 1

C34_Witness ==
    /\ ReturnedBy("searchFiles")
    /\ "count" \in returned.effects
    /\ returned.call.res.err =
           Wrap("DatabaseError", "Failed to count entities", MongoError)

\* C35: findById of an id returns the record last saved under it, with the
\* same id, status, name, MIME type and size, whether the save inserted the
\* document or updated one; the collection never holds two documents with
\* one id
C35_SaveThenFindById ==
    /\ \A d1, d2 \in repoCase.docs : d1._id = d2._id => d1 = d2
    /\ (repoCase.op = "findById" /\ repoCase.saved[repoCase.id] # NoEntity) =>
           LET record == repoCase.saved[repoCase.id]
           IN  /\ repoCase.found # NoEntity
               /\ repoCase.found.id = record.id
               /\ repoCase.found.id = repoCase.id
               /\ repoCase.found.status = record.status
               /\ repoCase.found.originalName = record.originalName
               /\ repoCase.found.mimeType = record.mimeType
               /\ repoCase.found.size = record.size
    /\ repoCase.op = "save" =>
           \E doc \in repoCase.docs :
               /\ doc._id = repoCase.entity.id
               /\ doc.status = repoCase.entity.status
               /\ doc.size = repoCase.entity.size

\* a record saved over another one of the same id, beside a record of the
\* other id, and found
C35_Witness ==
    /\ repoCase.op = "findById" /\ repoCase.id = "id-1"
    /\ repoCase.matched["id-1"] /\ repoCase.found # NoEntity
    /\ repoCase.found.status = UPLOADED /\ repoCase.found.size = 1000
    /\ repoCase.found.originalName = "B.png"
    /\ Cardinality(repoCase.docs) = 2

\* the completeUpload in slot p runs beside an updateFile of its id that has
\* saved its reset: either the declaration has changed since the call read
\* the record, or the updateFile is still on its way to its credential
OverlapsReset(p) ==
    /\ call[p].op = "completeUpload" /\ call[p].decl # NoReq
    /\ db[call[p].id] # NoRec
    /\ \/ call[p].decl # declared[call[p].id]
       \/ \E q \in Procs : /\ call[q].op = "updateFile" /\ call[q].pc = "url"
                           /\ call[q].id = call[p].id

\* C36: a save of a completeUpload that overlaps an updateFile of its id
\* leaves the record as the updateFile reset it: pending, with the name, MIME
\* type and size the updateFile declared
C36_ResetSurvivesCompletion ==
    [][\A p \in Procs :
          ((Acts(p, "completeUpload", "save1")
              \/ Acts(p, "completeUpload", "save2")) /\ OverlapsReset(p))
          => /\ db'[call[p].id].status = PENDING
             /\ DeclaredFields(db'[call[p].id]) =
                    <<declared[call[p].id].fileName,
                      declared[call[p].id].mimeType,
                      declared[call[p].id].size>>]_vars

\* C36, amended: there is no version check and the later write wins.  A save
\* of a completeUpload that overlaps an updateFile of its id, when the store
\* accepts it, replaces the reset record with the call's own entity (status
\* uploaded, validated or invalid; size and MIME type of the object it read);
\* when the store refuses it the record stays as it was
C36_LaterWriteWins ==
    [][\A p \in Procs :
          ((Acts(p, "completeUpload", "save1")
              \/ Acts(p, "completeUpload", "save2")) /\ OverlapsReset(p))
          => IF Kind(returned'.call.res) = "DatabaseError"
             THEN db'[call[p].id] = db[call[p].id]
             ELSE /\ db'[call[p].id] = call[p].ent
                  /\ db'[call[p].id].status \in {UPLOADED, VALIDATED, INVALID}
                  /\ db'[call[p].id].originalName = call[p].orig.originalName]_vars

\* the reset to a 1000-byte PNG is overwritten with the 100000-byte JPEG
\* object the completion had read
C36_Witness ==
    \E p \in Procs :
        /\ call[p].op = "completeUpload" /\ call[p].pc = "validate"
        /\ call[p].decl # declared[call[p].id]
        /\ declared[call[p].id].size = 1000
        /\ db[call[p].id] = call[p].ent
        /\ db[call[p].id].status = UPLOADED
        /\ db[call[p].id].size = 100000
        /\ db[call[p].id].mimeType = "image/jpeg"

\* C37: the steps of completeUpload up to its size check (the lookup of the
\* record, the verification of the upload, the fetch of the storage metadata
\* and the check) write nothing, so a call that fails in one of them has
\* called no more than findById, verifyUpload and getMetadata and leaves the
\* record, the bucket and the credentials as they were
C37_FailedCompletionWritesNothing ==
    [][\A p \in Procs :
          (Acts(p, "completeUpload", "find") \/ Acts(p, "completeUpload", "verify")
             \/ Acts(p, "completeUpload", "metadata"))
          => /\ UNCHANGED <<db, storage, creds>>
             /\ (ReturnedBy("completeUpload")' /\ ~returned'.call.res.ok) =>
                    /\ returned'.effects
                           \subseteq {"findById", "verifyUpload", "getMetadata"}
                    /\ returned'.call.saved = "none"
                    /\ Kind(returned'.call.res)
                           \in {"DatabaseError", "NotFoundError",
                                "StorageError", "ValidationError"}]_vars

\* the size check has failed and the record is still pending
C37_Witness ==
    /\ ReturnedBy("completeUpload")
    /\ Kind(returned.call.res) = "ValidationError"
    /\ returned.effects = {"findById", "verifyUpload", "getMetadata"}
    /\ db[returned.call.id].status = PENDING
    /\ ObjectNames(storage, returned.call.id) # {}

\* a path matches a registered path exactly, or part by part where the parts
\* of the registered path that begin with a colon stand for any part
PathMatches(routePath, path) ==
    \/ routePath = path
    \/ /\ Len(routePath) = Len(path)
       /\ \A i \in DOMAIN routePath :
              routePath[i] = path[i] \/ startsWithColon(routePath[i])

RoutesMatching(path) ==
    {i \in DOMAIN Routes : PathMatches(Routes[i].path, path)}

\* C38: for a request that is not a preflight, Router.handle invokes a
\* handler only if it is that of a registered route with the method of the
\* request and a path the request's path matches; when the path matches
\* registered routes under other methods only the answer is 405, and when it
\* matches no registered route the answer is 404
C38_RouterAnswers ==
    (routeCase.op = "handled" /\ routeCase.method # "OPTIONS") =>
        LET matching == RoutesMatching(routeCase.path)
            sameMethod == {i \in matching :
                              Routes[i].method = routeCase.method}
        IN  /\ routeCase.answer.handler # "none" =>
                   \E i \in sameMethod :
                       Routes[i].handler = routeCase.answer.handler
            /\ (matching # {} /\ sameMethod = {}) =>
                   /\ routeCase.answer.handler = "none"
                   /\ routeCase.answer.statusCode = 405
            /\ matching = {} =>
                   /\ routeCase.answer.handler = "none"
                   /\ routeCase.answer.statusCode = 404

====
